---- MODULE Spec2Model ----
\* A verification model of the TeamClaws runtime (package multiclaws):
\*   - the multi-provider LLM router        (llm/router.py)
\*   - the task queue of the SQLite store    (memory/store.py, core/picoclaw.py)
\*   - the process supervisor                (core/watchdog.py)
\*   - the worker process                    (core/picoclaw.py, core/signals.py)
\*   - the path containment of the tools     (tools/sandbox.py)
\*   - the tool registry and the file tools  (tools/registry.py, tools/builtins/file_ops.py)
\*   - the CEO's react loop and delegation   (roles/ceo.py)
\*   - the turn log and its compaction       (memory/store.py, memory/summarizer.py)
\*   - the context builder                   (memory/context_builder.py)
\*   - the task context note file            (memory/task_context.py)
\*   - the financial allocator               (roles/cfo.py)
\*   - the plan tool of the CEO              (roles/ceo.py)
\* Each subsystem has its own specification over the shared variable tuple:
\*   SpecRouter, SpecTasks, SpecRetry, SpecPlan, SpecWatchdog, SpecSupervisor,
\*   SpecFate, SpecWorker, SpecPath, SpecTools, SpecCeo, SpecMem, SpecCtx,
\*   SpecNote, SpecCfo.
EXTENDS Integers, Sequences, FiniteSets, TLC

VARIABLES
    \* ---- LLM router ----
    cost_log,          \* rows of the cost_log table written today, in insertion order
    quota_remaining,   \* LLMRouter._quota_remaining of the router, per provider, in tenths
    has_store,         \* the router was constructed with a store (self.store is set)
    req,               \* the complete_full call in progress
    \* ---- task queue ----
    tasks,             \* the tasks table: task id -> row
    task_deps,         \* the task_deps table: set of <<task_id, depends_on>>
    clock,             \* datetime('now') of the store, in seconds
    conn,              \* per caller: the store call in progress on its connection
    returned_to,       \* per task: callers claim_ready_task returned it to since it last became pending
    last,              \* the last completed task operation and what it returned
    \* ---- supervisor ----
    agent,             \* the ManagedAgent record of the supervised worker
    live,              \* worker processes (by pid) that are alive
    worker,            \* per pid: the worker process (position, stop flag, task in hand)
    outbox,            \* agent.outbox: signals the worker processes have put
    inbox,             \* agent.inbox: signals waiting for the worker
    delivered,         \* task_result signals the collector has put on an agent's inbox
    agent_state,       \* the agent_state row of the worker's role
    running,           \* Watchdog._running
    stopPc,            \* position of the thread calling stop_all
    pollPc,            \* position of the polling thread
    collPc,            \* position of the collector thread
    nspawned,          \* processes started so far (the next pid is nspawned + 1)
    respawns,          \* processes started by the restart flow (_handle_dead)
    gaveUp,            \* the restart flow has marked the worker crashed
    everKilled,        \* the supervisor has killed a process of the worker (_kill)
    respawnsAfterGiveUp, \* processes the background threads started after that
    \* ---- tool sandbox ----
    path_call,         \* the safe_path call in progress: its argument and its outcome
    \* ---- tool registry ----
    tools,             \* ToolRegistry._tools: the names of the registered tools
    audit_log,         \* rows of the audit_log table: tool name and result, in insertion order
    tool_call,          \* the ToolRegistry.execute call in progress
    \* ---- CEO coordinator ----
    retry_counts,      \* CEOAgent._retry_counts (class attribute): task key -> strikes, 0 when absent
    react,             \* the tool call of the react loop iteration in progress
    deleg,              \* the _dispatch_with_retry call in progress, with its _inline_dispatch
    \* ---- memory: turns and compaction ----
    turns,             \* the turns table: row id -> session and summarized flag
    summaries,         \* the summaries table: session, inclusive id range, and the turn ids that fed it
    compact,           \* per compaction run: the maybe_summarize call in progress
    short_term,         \* MemoryStore._short_term of the running process: session -> ring of turns
    \* ---- context builder ----
    ctx_call,           \* the build_context call in progress: its arguments (text lengths) and the messages it returns
    \* ---- task context note file ----
    note_file,          \* the body lines of the session's note file after its three header lines, oldest first
    \* ---- financial allocator ----
    cfo_call           \* the CFO.allocate call in progress: its arguments, what it read, and its decision

routerVars == <<cost_log, quota_remaining, has_store, req>>
taskVars == <<tasks, task_deps, clock, conn, returned_to, last>>
dogVars == <<agent, live, worker, outbox, inbox, delivered, agent_state, running, stopPc,
             pollPc, collPc, nspawned, respawns, gaveUp, everKilled, respawnsAfterGiveUp>>
pathVars == <<path_call>>
toolVars == <<tools, audit_log, tool_call>>
ceoVars == <<retry_counts, react, deleg>>
memVars == <<turns, summaries, compact, short_term>>
ctxVars == <<ctx_call>>
noteVars == <<note_file>>
cfoVars == <<cfo_call>>
vars == <<cost_log, quota_remaining, has_store, req,
          tasks, task_deps, clock, conn, returned_to, last,
          agent, live, worker, outbox, inbox, delivered, agent_state, running, stopPc,
          pollPc, collPc, nspawned, respawns, gaveUp, everKilled, respawnsAfterGiveUp,
          path_call,
          tools, audit_log, tool_call,
          retry_counts, react, deleg,
          turns, summaries, compact, short_term,
          ctx_call,
          note_file,
          cfo_call>>

\* What the steps of one subsystem leave alone.
notRouter == <<taskVars, dogVars, pathVars, toolVars, ceoVars, memVars, ctxVars, noteVars, cfoVars>>
notTasks == <<routerVars, dogVars, pathVars, toolVars, ceoVars, memVars, ctxVars, noteVars, cfoVars>>
notDog == <<routerVars, taskVars, pathVars, toolVars, ceoVars, memVars, ctxVars, noteVars, cfoVars>>
notPath == <<routerVars, taskVars, dogVars, toolVars, ceoVars, memVars, ctxVars, noteVars, cfoVars>>
notTools == <<routerVars, taskVars, dogVars, pathVars, ceoVars, memVars, ctxVars, noteVars, cfoVars>>
notCeo == <<routerVars, taskVars, dogVars, pathVars, toolVars, memVars, ctxVars, noteVars, cfoVars>>
notMem == <<routerVars, taskVars, dogVars, pathVars, toolVars, ceoVars, ctxVars, noteVars, cfoVars>>
notCtx == <<routerVars, taskVars, dogVars, pathVars, toolVars, ceoVars, memVars, noteVars, cfoVars>>
notNote == <<routerVars, taskVars, dogVars, pathVars, toolVars, ceoVars, memVars, ctxVars, cfoVars>>
notCfo == <<routerVars, taskVars, dogVars, pathVars, toolVars, ceoVars, memVars, ctxVars, noteVars>>

\* ======================================================================
\* LLM router
\* ======================================================================

\* Providers with an API key configured, in the order _load_providers inserts them.
Providers == <<"openai", "anthropic", "groq">>

ProviderSet == {Providers[i] : i \in 1..Len(Providers)}

ProviderIndex(p) == CHOOSE i \in 1..Len(Providers) : Providers[i] = p

\* LLMProviderConfig.priority of the sample configuration, in tenths.
PriorityTenths(p) == IF p = "groq" THEN 8 ELSE 5

\* LLMProviderConfig.cost_per_1k_input of the sample configuration (integer units).
CostPer1kInput(p) == IF p = "openai" THEN 5 ELSE IF p = "anthropic" THEN 3 ELSE 0

\* BaseProvider.avg_latency_ms values a request may observe (1000 with no samples).
LatencyChoices == {500, 1000}

\* config.budget.daily_usd, in cost units.
DailyBudget == 2

\* LLMResponse.cost_usd of one successful call, in cost units.
CostChoices == {1, 2}

\* Most rows the cost log holds in the model.
MaxCostRows == 3

RECURSIVE SumCost(_)
SumCost(rows) == IF rows = <<>> THEN 0 ELSE Head(rows).cost + SumCost(Tail(rows))

\* MemoryStore.get_daily_cost: COALESCE(SUM(cost_usd), 0) over today's rows.
get_daily_cost == SumCost(cost_log)

SetMax(S) == CHOOSE x \in S : \A y \in S : y <= x

\* LLMRouter._score times 100 * max_cost * max_lat, as an integer. lat is the
\* avg_latency_ms of every provider at the time of the call.
Score(p, lat) ==
    LET positive == {CostPer1kInput(n) : n \in ProviderSet} \ {0}
        priced == positive # {}
        mc == IF priced THEN SetMax(positive) ELSE 1
        c == IF priced THEN CostPer1kInput(p) ELSE 0
        maxl == SetMax({lat[n] : n \in ProviderSet})
        ml == IF maxl = 0 THEN 1 ELSE maxl
        l == IF maxl = 0 THEN 0 ELSE lat[p]
    IN  3 * PriorityTenths(p) * mc * ml + 30 * (mc - c) * ml
        + 20 * (ml - l) * mc + 2 * quota_remaining[p] * mc * ml

\* The order sorted(..., key=_score, reverse=True) gives two providers: the sort is
\* stable, so equal scores keep insertion order.
Before(a, b, lat) ==
    \/ Score(a, lat) > Score(b, lat)
    \/ Score(a, lat) = Score(b, lat) /\ ProviderIndex(a) < ProviderIndex(b)

\* LLMRouter._ranked_providers.
ranked_providers(lat) ==
    [k \in 1..Len(Providers) |->
        CHOOSE p \in ProviderSet :
            Cardinality({o \in ProviderSet : Before(o, p, lat)}) = k - 1]

Prefix(s, n) == [i \in 1..(IF Len(s) < n THEN Len(s) ELSE n) |-> s[i]]

\* complete_full, lines 138-141: the candidates of a request.
Candidates(override, lat) ==
    IF override # "none" /\ override \in ProviderSet
    THEN <<override>>
    ELSE Prefix(ranked_providers(lat), 3)

IdleReq == [pc |-> "idle", ordered |-> <<>>, idx |-> 0, beginDaily |-> 0,
            invoked |-> 0, rows |-> 0, tripped |-> FALSE,
            invokedAfterTrip |-> 0, rowsAfterTrip |-> 0, resp |-> "none"]

\* max(0, quota - 0.3), in tenths.
DecQuota(q) == IF q - 3 < 0 THEN 0 ELSE q - 3

\* LLMRouter.__init__ / _load_providers: an agent constructs its router, without a
\* store (LLMRouter(self.config), the agent processes) or with one
\* (LLMRouter(self.config, self.store), the in-process experts).
NewRouter(store) ==
    /\ req.pc = "idle"
    /\ has_store' = store
    /\ quota_remaining' = [p \in ProviderSet |-> 10]
    /\ UNCHANGED <<cost_log, req>>

\* complete_full up to the first provider call (lines 135-144): no providers ->
\* raise; otherwise the candidate list is fixed. Nothing reads the cost log here.
Begin(override, lat) ==
    /\ req.pc = "idle"
    /\ Len(cost_log) + Len(Candidates(override, lat)) <= MaxCostRows
    /\ req' = IF ProviderSet = {}
              THEN [IdleReq EXCEPT !.pc = "raised", !.beginDaily = get_daily_cost]
              ELSE [IdleReq EXCEPT !.pc = "trying",
                                   !.ordered = Candidates(override, lat),
                                   !.idx = 1,
                                   !.beginDaily = get_daily_cost]
    /\ UNCHANGED <<cost_log, quota_remaining, has_store>>

\* What follows an exception inside the try block of candidate p (lines 181-184),
\* then the next loop iteration or the raise of line 186. q is the request so far.
AfterException(p, q) ==
    /\ quota_remaining' = [quota_remaining EXCEPT ![p] = DecQuota(@)]
    /\ req' = [q EXCEPT !.idx = @ + 1,
                        !.pc = IF q.idx + 1 > Len(q.ordered) THEN "raised" ELSE "trying"]

\* One iteration of the loop of complete_full (lines 146-184): the provider call
\* succeeds with the given cost or raises.
Attempt(ok, cost) ==
    /\ req.pc = "trying"
    /\ LET p == req.ordered[req.idx]
           called == [req EXCEPT
                        !.invoked = @ + 1,
                        !.invokedAfterTrip = IF req.tripped THEN @ + 1 ELSE @]
       IN  IF ~ok
           THEN /\ AfterException(p, called)
                /\ UNCHANGED cost_log
           ELSE IF ~has_store
           THEN /\ req' = [called EXCEPT !.pc = "returned", !.resp = p]
                /\ UNCHANGED <<cost_log, quota_remaining>>
           ELSE LET logged == Append(cost_log, [provider |-> p, cost |-> cost])
                    daily == SumCost(logged)
                    wrote == [called EXCEPT
                                !.rows = @ + 1,
                                !.rowsAfterTrip = IF req.tripped THEN @ + 1 ELSE @]
                IN  /\ cost_log' = logged
                    /\ IF daily >= DailyBudget
                       THEN AfterException(p, [wrote EXCEPT !.tripped = TRUE])
                       ELSE /\ req' = [wrote EXCEPT !.pc = "returned", !.resp = p]
                            /\ UNCHANGED quota_remaining
    /\ UNCHANGED has_store

\* The caller has the response or the ProviderExhaustedError; the router is free.
Finish ==
    /\ req.pc \in {"returned", "raised"}
    /\ req' = IdleReq
    /\ UNCHANGED <<cost_log, quota_remaining, has_store>>

InitRouter ==
    /\ cost_log = <<>>
    /\ has_store = TRUE
    /\ quota_remaining = [p \in ProviderSet |-> 10]
    /\ req = IdleReq

NextRouter ==
    \/ \E st \in BOOLEAN : NewRouter(st) /\ UNCHANGED notRouter
    \/ \E o \in ProviderSet \cup {"none"}, lat \in [ProviderSet -> LatencyChoices] :
          Begin(o, lat) /\ UNCHANGED notRouter
    \/ \E ok \in BOOLEAN, c \in CostChoices : Attempt(ok, c) /\ UNCHANGED notRouter
    \/ Finish /\ UNCHANGED notRouter

\* ======================================================================
\* Task queue of the store
\* ======================================================================

\* Task ids (uuid4 in the code: opaque and fresh; the model hands them out in order).
TaskIds == <<"t1", "t2">>

TaskIdSet == {TaskIds[i] : i \in 1..Len(TaskIds)}

Roles == {"coder", "researcher"}

\* Connections (processes) calling the store concurrently.
Conns == {"c1", "c2"}

\* Last second of the store clock in the model.
MaxClock == 1

\* Largest retry_count the model lets fail_with_retry write.
MaxRetryCount == 3

\* `row["max_retries"] or 2`: the value used when the column is NULL or 0.
DefaultMaxRetries == 2

\* SQL NULL of an integer column.
Null == -1

NoRow == [exists |-> FALSE, assigned_to |-> "none", status |-> "none",
          retry_count |-> 0, max_retries |-> 0, created_at |-> 0]

\* Column defaults of a freshly inserted task row (schema.sql).
NewTaskRow(role) ==
    [exists |-> TRUE, assigned_to |-> role, status |-> "pending",
     retry_count |-> 0, max_retries |-> DefaultMaxRetries, created_at |-> clock]

\* A connection with no call in progress.
IdleConn == [pc |-> "idle", role |-> "none", row |-> "none",
             retry_count |-> 0, max_retries |-> 0]

NoOp == [op |-> "none", task |-> "none", ret |-> FALSE]

Exists(t) == tasks[t].exists

\* Python `x or d` on an integer column value: NULL and 0 are falsy.
OrDefault(x, d) == IF x = Null \/ x = 0 THEN d ELSE x

\* ORDER BY created_at LIMIT 1 over a set of rows: a row with the least
\* created_at (rows created within the same second are tied).
Oldest(S) == {t \in S : \A u \in S : tasks[t].created_at <= tasks[u].created_at}

\* The SELECT of claim_task (lines 153-157), before ORDER BY/LIMIT.
ClaimTaskRows(role) ==
    {t \in TaskIdSet : Exists(t) /\ tasks[t].status = "pending" /\ tasks[t].assigned_to = role}

\* The NOT EXISTS subquery with `dep.status NOT IN ('done', 'failed')`: a failed
\* dependency no longer blocks.
NoUnfinishedDep_FailedUnblocks(t) ==
    ~\E d \in TaskIdSet : /\ <<t, d>> \in task_deps
                          /\ Exists(d)
                          /\ tasks[d].status \notin {"done", "failed"}

\* The NOT EXISTS subquery of claim_ready_task (lines 262-266): no dependency edge
\* of t joins a task row whose status is not 'done'.
NoUnfinishedDep(t) ==
    ~\E d \in TaskIdSet : <<t, d>> \in task_deps /\ Exists(d) /\ tasks[d].status # "done"

\* The SELECT of claim_ready_task (lines 260-268), before ORDER BY/LIMIT.
ClaimReadyRows(role) ==
    {t \in TaskIdSet : /\ Exists(t)
                       /\ tasks[t].status = "pending"
                       /\ tasks[t].assigned_to = role
                       /\ NoUnfinishedDep(t)}

\* The store clock advances.
Tick ==
    /\ clock < MaxClock
    /\ clock' = clock + 1
    /\ UNCHANGED <<tasks, task_deps, conn, returned_to, last>>

\* MemoryStore.create_task: one INSERT.
CreateTask(role) ==
    /\ \E i \in 1..Len(TaskIds) :
          /\ ~Exists(TaskIds[i])
          /\ \A j \in 1..(i - 1) : Exists(TaskIds[j])
          /\ tasks' = [tasks EXCEPT ![TaskIds[i]] = NewTaskRow(role)]
    /\ UNCHANGED <<task_deps, clock, conn, returned_to, last>>

\* MemoryStore.add_task_dependency: INSERT OR IGNORE of one edge, drawn between
\* two distinct tasks.
AddTaskDependency(t, d) ==
    /\ Exists(t) /\ Exists(d)
    /\ t # d
    /\ <<t, d>> \notin task_deps
    /\ task_deps' = task_deps \cup {<<t, d>>}
    /\ UNCHANGED <<tasks, clock, conn, returned_to, last>>

\* The first statement of a claim: run the SELECT on rows, keep the row it
\* returns (a tied oldest row, or none), as a read of its own.
ClaimSelect(c, pc, role, rows) ==
    /\ conn[c].pc = "idle"
    /\ \E t \in (IF rows = {} THEN {"none"} ELSE Oldest(rows)) :
          conn' = [conn EXCEPT ![c] = [IdleConn EXCEPT !.pc = pc, !.role = role, !.row = t]]
    /\ UNCHANGED <<tasks, task_deps, clock, returned_to, last>>

\* The rest of a claim: `if not row: return None`, otherwise the UPDATE of the
\* selected row to 'running' by id, the commit, and the return of the row.
ClaimUpdate(c) ==
    /\ tasks' = IF conn[c].row = "none"
                THEN tasks
                ELSE [tasks EXCEPT ![conn[c].row].status = "running"]
    /\ conn' = [conn EXCEPT ![c] = IdleConn]
    /\ UNCHANGED <<task_deps, clock, last>>

\* MemoryStore.claim_task, lines 153-157.
ClaimTaskSelect(c, role) == ClaimSelect(c, "claim_selected", role, ClaimTaskRows(role))

\* MemoryStore.claim_task, lines 158-166.
ClaimTaskUpdate(c) ==
    /\ conn[c].pc = "claim_selected"
    /\ ClaimUpdate(c)
    /\ UNCHANGED returned_to

\* MemoryStore.claim_ready_task, lines 260-268.
ClaimReadySelect(c, role) == ClaimSelect(c, "ready_selected", role, ClaimReadyRows(role))

\* MemoryStore.claim_ready_task, lines 269-277; returned_to records the caller
\* the row is returned to.
ClaimReadyUpdate(c) ==
    /\ conn[c].pc = "ready_selected"
    /\ ClaimUpdate(c)
    /\ returned_to' = IF conn[c].row = "none"
                      THEN returned_to
                      ELSE [returned_to EXCEPT ![conn[c].row] = @ \cup {c}]

\* MemoryStore.complete_task: one unconditional UPDATE of the row's status.
complete_task(t, success) ==
    tasks' = [tasks EXCEPT ![t].status = IF success THEN "done" ELSE "failed"]

CompleteTask(t, success) ==
    /\ Exists(t)
    /\ complete_task(t, success)
    /\ UNCHANGED <<task_deps, clock, conn, returned_to, last>>

\* PicoClaw._handle_task_assign for a task_assign carrying task id t: handle_task
\* returns (raised = FALSE) or raises; the finally block records the outcome with
\* complete_task(task_id, output, success).
HandleTaskAssign(t, raised) ==
    /\ Exists(t)
    /\ complete_task(t, ~raised)
    /\ UNCHANGED <<task_deps, clock, conn, returned_to, last>>

\* MemoryStore.fail_with_retry, lines 229-233: the SELECT of the row's counters;
\* `if not row: return False` when the id has no row.
FailWithRetrySelect(c, t) ==
    /\ conn[c].pc = "idle"
    /\ IF Exists(t)
       THEN /\ conn' = [conn EXCEPT ![c] = [pc |-> "retry_selected", role |-> "none", row |-> t,
                                            retry_count |-> tasks[t].retry_count,
                                            max_retries |-> tasks[t].max_retries]]
            /\ UNCHANGED last
       ELSE /\ last' = [op |-> "fail_with_retry", task |-> t, ret |-> FALSE]
            /\ UNCHANGED conn
    /\ UNCHANGED <<tasks, task_deps, clock, returned_to>>

\* MemoryStore.fail_with_retry, lines 234-247: the UPDATE and the return value.
FailWithRetryUpdate(c) ==
    /\ conn[c].pc = "retry_selected"
    /\ LET t == conn[c].row
           retry_count == OrDefault(conn[c].retry_count, 0) + 1
           retrying == retry_count <= OrDefault(conn[c].max_retries, 2)
       IN  /\ retry_count <= MaxRetryCount
           /\ tasks' = [tasks EXCEPT ![t].status = IF retrying THEN "pending" ELSE "failed",
                                     ![t].retry_count = retry_count]
           /\ returned_to' = [returned_to EXCEPT ![t] = IF retrying THEN {} ELSE @]
           /\ last' = [op |-> "fail_with_retry", task |-> t, ret |-> retrying]
    /\ conn' = [conn EXCEPT ![c] = IdleConn]
    /\ UNCHANGED <<task_deps, clock>>

InitTasks ==
    /\ tasks = [t \in TaskIdSet |-> NoRow]
    /\ task_deps = {}
    /\ clock = 0
    /\ conn = [c \in Conns |-> IdleConn]
    /\ returned_to = [t \in TaskIdSet |-> {}]
    /\ last = NoOp

NextTasks ==
    \/ Tick /\ UNCHANGED notTasks
    \/ \E role \in Roles : CreateTask(role) /\ UNCHANGED notTasks
    \/ \E t, d \in TaskIdSet : AddTaskDependency(t, d) /\ UNCHANGED notTasks
    \/ \E c \in Conns, role \in Roles : ClaimTaskSelect(c, role) /\ UNCHANGED notTasks
    \/ \E c \in Conns : ClaimTaskUpdate(c) /\ UNCHANGED notTasks
    \/ \E c \in Conns, role \in Roles : ClaimReadySelect(c, role) /\ UNCHANGED notTasks
    \/ \E c \in Conns : ClaimReadyUpdate(c) /\ UNCHANGED notTasks
    \/ \E t \in TaskIdSet, s \in BOOLEAN : CompleteTask(t, s) /\ UNCHANGED notTasks

\* Position of a task id in the order the ids are handed out.
TaskIndex(t) == CHOOSE i \in 1..Len(TaskIds) : TaskIds[i] = t

\* Most steps of a plan in the model.
MaxPlanSteps == 2

\* depends_on_step of a step: absent ({}) or an integer.
DependsOnChoices == {{}, {-1}, {0}, {1}}

\* The step lists create_plan accepts: each step names an agent and a task,
\* depends_on_step is optional.
Plans ==
    UNION {[1..k -> [agent : Roles, depends_on_step : DependsOnChoices]] : k \in 1..MaxPlanSteps}

\* CreatePlanTool.execute on a tool with a store: per step one create_task,
\* and one add_task_dependency when depends_on_step is given and names an
\* earlier step (0 <= dep_idx < len(task_ids) - 1).
CreatePlan(steps) ==
    /\ \A t \in TaskIdSet : ~Exists(t)
    /\ Len(steps) <= Len(TaskIds)
    /\ tasks' = [t \in TaskIdSet |->
                    IF TaskIndex(t) <= Len(steps)
                    THEN NewTaskRow(steps[TaskIndex(t)].agent)
                    ELSE tasks[t]]
    /\ task_deps' = task_deps \cup
          {<<TaskIds[i], TaskIds[d + 1]>> :
              <<i, d>> \in {x \in (1..Len(steps)) \X (-1..MaxPlanSteps) :
                               /\ x[2] \in steps[x[1]].depends_on_step
                               /\ 0 <= x[2]
                               /\ x[2] < x[1] - 1}}
    /\ UNCHANGED <<clock, conn, returned_to, last>>

NextPlan ==
    \/ \E steps \in Plans : CreatePlan(steps) /\ UNCHANGED notTasks
    \/ \E c \in Conns, role \in Roles : ClaimReadySelect(c, role) /\ UNCHANGED notTasks
    \/ \E c \in Conns : ClaimReadyUpdate(c) /\ UNCHANGED notTasks
    \/ \E t \in TaskIdSet, s \in BOOLEAN : CompleteTask(t, s) /\ UNCHANGED notTasks

\* Task rows drawn for the retry specification: one task being worked on, with
\* every combination of counters in range.
RetryCounts == 0..2

MaxRetriesChoices == {Null, 0, 1, 2}

InitRetryTasks ==
    /\ \E rc \in RetryCounts, mx \in MaxRetriesChoices :
          tasks = [t \in TaskIdSet |->
                      IF t = TaskIds[1]
                      THEN [exists |-> TRUE, assigned_to |-> "coder", status |-> "running",
                            retry_count |-> rc, max_retries |-> mx, created_at |-> 0]
                      ELSE NoRow]
    /\ task_deps = {}
    /\ clock = 0
    /\ conn = [c \in Conns |-> IdleConn]
    /\ returned_to = [t \in TaskIdSet |-> {}]
    /\ last = NoOp

\* A store holding one task that a worker has claimed.
InitFateTasks ==
    /\ clock = 0
    /\ tasks = [t \in TaskIdSet |->
                   IF t = TaskIds[1]
                   THEN [NewTaskRow("coder") EXCEPT !.status = "running"]
                   ELSE NoRow]
    /\ task_deps = {}
    /\ conn = [c \in Conns |-> IdleConn]
    /\ returned_to = [t \in TaskIdSet |-> {}]
    /\ last = NoOp

NextRetry ==
    \/ \E c \in Conns, t \in TaskIdSet : FailWithRetrySelect(c, t) /\ UNCHANGED notTasks
    \/ \E c \in Conns : FailWithRetryUpdate(c) /\ UNCHANGED notTasks
    \/ \E t \in TaskIdSet, raised \in BOOLEAN : HandleTaskAssign(t, raised) /\ UNCHANGED notTasks
    \/ \E c \in Conns, role \in Roles : ClaimReadySelect(c, role) /\ UNCHANGED notTasks
    \/ \E c \in Conns : ClaimReadyUpdate(c) /\ UNCHANGED notTasks

\* ======================================================================
\* Process supervisor
\* ======================================================================

\* config.watchdog.max_restarts (WatchdogConfig default).
MaxRestarts == 3

\* config.watchdog.heartbeat_timeout_seconds.
HeartbeatTimeout == 15

\* config.watchdog.ram_kill_threshold_mb.
RamKillThresholdMb == 512

\* config.watchdog.cpu_kill_threshold_percent.
CpuKillThresholdPercent == 90

\* config.watchdog.cpu_kill_sustained_seconds.
CpuKillSustainedSeconds == 10

\* Most worker processes the model starts for the role.
MaxSpawns == 5

\* Most signals waiting in the outbox in the model.
MaxOutbox == 2

\* Most task_assign signals waiting in the inbox in the model.
MaxInbox == 1

\* agent.process is None; also a NULL pid column.
NoProcess == 0

Pids == 1..MaxSpawns

\* The roles registered with the supervisor (main.py); the supervised worker of
\* the model is the one with role WorkerRole.
AgentRoles == {"ceo", "researcher", "coder", "communicator"}

WorkerRole == "coder"

\* What a poll can observe: heartbeat age, RSS in MB, CPU percent, and the time
\* since agent.cpu_high_since, each at its threshold and just above it.
ElapsedChoices == {HeartbeatTimeout, HeartbeatTimeout + 1}

RssChoices == {RamKillThresholdMb, RamKillThresholdMb + 1}

CpuChoices == {CpuKillThresholdPercent, CpuKillThresholdPercent + 1}

HighForChoices == {CpuKillSustainedSeconds, CpuKillSustainedSeconds + 1}

\* A worker process that is not running.
DeadWorker == [pc |-> "dead", stop |-> FALSE, hb |-> FALSE, task |-> "none", sender |-> "none",
               raised |-> FALSE]

\* A worker process entering _event_loop: main loop and heartbeat loop created.
NewWorker == [pc |-> "main", stop |-> FALSE, hb |-> TRUE, task |-> "none", sender |-> "none",
              raised |-> FALSE]

\* Signals of signals.py, with the fields the model reads.
HeartbeatSig(pid) ==
    [type |-> "heartbeat", pid |-> pid, task |-> "none", target |-> "watchdog", success |-> TRUE]

TaskResultSig(pid, task, target, success) ==
    [type |-> "task_result", pid |-> pid, task |-> task, target |-> target, success |-> success]

TaskAssignSig(task, sender) == [type |-> "task_assign", task |-> task, sender |-> sender]

ShutdownSig == [type |-> "shutdown", task |-> "none", sender |-> "watchdog"]

\* proc.is_alive() of the current process handle.
ProcessAlive == agent.process # NoProcess /\ agent.process \in live

\* Watchdog._spawn: start a fresh process, keep its handle, write the state row.
\* The record a is the ManagedAgent as the caller left it.
spawn(a) ==
    /\ nspawned < MaxSpawns
    /\ nspawned' = nspawned + 1
    /\ live' = live \cup {nspawned + 1}
    /\ worker' = [worker EXCEPT ![nspawned + 1] = NewWorker]
    /\ agent' = [a EXCEPT !.process = nspawned + 1]
    /\ agent_state' = [status |-> "idle", pid |-> nspawned + 1]

\* Watchdog.start_all: spawn the enabled agent, start both background threads.
StartAll ==
    /\ ~running
    /\ nspawned = 0
    /\ running' = TRUE
    /\ spawn(agent)
    /\ UNCHANGED <<outbox, inbox, delivered, stopPc, pollPc, collPc,
                   respawns, gaveUp, everKilled, respawnsAfterGiveUp>>

\* Watchdog.start_agent for the registered role: nothing when the process
\* handle is alive, otherwise _spawn.
StartAgent ==
    /\ IF ProcessAlive
       THEN UNCHANGED <<agent, live, worker, agent_state, nspawned>>
       ELSE spawn(agent)
    /\ UNCHANGED <<outbox, inbox, delivered, running, stopPc, pollPc, collPc,
                   respawns, gaveUp, everKilled, respawnsAfterGiveUp>>

\* Watchdog._kill of the current process handle: write the state row, SIGKILL,
\* join, drop the handle and the high-CPU timestamp. Gives the agent record and
\* the state row as _kill leaves them.
kill_agent == [agent EXCEPT !.process = NoProcess, !.cpu_high_since = FALSE,
                            !.cpu_high_pid = NoProcess]

kill_state == [status |-> "killed", pid |-> agent.process]

\* Watchdog._handle_dead, lines 197-205: give up at max_restarts, otherwise go to
\* sleep for the backoff. a is the agent record, st the state row, as left by the caller.
handle_dead_enter(a, st) ==
    IF a.restart_count >= MaxRestarts
    THEN /\ agent_state' = [status |-> "crashed", pid |-> NoProcess]
         /\ gaveUp' = TRUE
         /\ agent' = a
         /\ pollPc' = "idle"
    ELSE /\ pollPc' = "backoff"
         /\ agent' = a
         /\ agent_state' = st
         /\ UNCHANGED gaveUp

\* Watchdog._kill followed by _handle_dead (the breach branches of _check_agent).
kill_then_handle_dead ==
    /\ live' = live \ {agent.process}
    /\ worker' = [worker EXCEPT ![agent.process] = DeadWorker]
    /\ everKilled' = TRUE
    /\ handle_dead_enter(kill_agent, kill_state)

\* Watchdog._poll_loop: the `while self._running` test, then the sleep of
\* poll_interval_seconds.
PollLoop ==
    /\ running
    /\ pollPc = "idle"
    /\ pollPc' = "sleeping"
    /\ UNCHANGED <<agent, live, worker, outbox, inbox, delivered, agent_state, running,
                   stopPc, collPc, nspawned, respawns, gaveUp, everKilled, respawnsAfterGiveUp>>

\* Watchdog._check_agent for the agent, called by _poll_loop after its sleep. The
\* inputs are what the poll observes: seconds since the last heartbeat, RSS in
\* MB, CPU percent, seconds since agent.cpu_high_since, and whether psutil raised
\* NoSuchProcess / AccessDenied.
CheckAgent(elapsed, rss_mb, cpu, highFor, psutilRaised) ==
    /\ pollPc = "sleeping"
    /\ agent.enabled
    /\ IF ~ProcessAlive
       THEN /\ handle_dead_enter(agent, agent_state)
            /\ UNCHANGED <<live, worker, everKilled>>
       ELSE IF elapsed > HeartbeatTimeout
       THEN kill_then_handle_dead
       ELSE IF psutilRaised
       THEN /\ pollPc' = "idle"
            /\ UNCHANGED <<agent, live, worker, everKilled, agent_state, gaveUp>>
       ELSE IF rss_mb > RamKillThresholdMb
       THEN kill_then_handle_dead
       ELSE IF cpu > CpuKillThresholdPercent /\ agent.cpu_high_since
                 /\ highFor > CpuKillSustainedSeconds
       THEN kill_then_handle_dead
       ELSE /\ agent' = IF cpu > CpuKillThresholdPercent
                        THEN IF agent.cpu_high_since
                             THEN agent
                             ELSE [agent EXCEPT !.cpu_high_since = TRUE,
                                                !.cpu_high_pid = agent.process]
                        ELSE [agent EXCEPT !.cpu_high_since = FALSE,
                                           !.cpu_high_pid = NoProcess]
            /\ pollPc' = "idle"
            /\ UNCHANGED <<live, worker, everKilled, agent_state, gaveUp>>
    /\ UNCHANGED <<outbox, inbox, delivered, running, stopPc, collPc,
                   nspawned, respawns, respawnsAfterGiveUp>>

\* Watchdog._handle_dead, lines 206-207, after the backoff sleep: count the
\* restart and spawn.
HandleDeadRespawn ==
    /\ pollPc = "backoff"
    /\ spawn([agent EXCEPT !.restart_count = @ + 1])
    /\ pollPc' = "idle"
    /\ respawns' = respawns + 1
    /\ respawnsAfterGiveUp' = IF gaveUp THEN respawnsAfterGiveUp + 1 ELSE respawnsAfterGiveUp
    /\ UNCHANGED <<outbox, inbox, delivered, running, stopPc, collPc, gaveUp, everKilled>>

\* Watchdog._collect_signals, lines 212-214: skip the agent while it has no process
\* handle, otherwise start draining its outbox.
CollectorCheck ==
    /\ running
    /\ collPc = "idle"
    /\ agent.process # NoProcess
    /\ collPc' = "draining"
    /\ UNCHANGED <<agent, live, worker, outbox, inbox, delivered, agent_state, running,
                   stopPc, pollPc, nspawned, respawns, gaveUp, everKilled, respawnsAfterGiveUp>>

\* Watchdog._handle_outbound: a heartbeat refreshes last_heartbeat and resets
\* restart_count; a task_result is put on the inbox of its target when the
\* target is a registered agent, and dropped otherwise.
handle_outbound(sig) ==
    /\ agent' = IF sig.type = "heartbeat" THEN [agent EXCEPT !.restart_count = 0] ELSE agent
    /\ delivered' = IF sig.type = "task_result" /\ sig.target \in AgentRoles
                    THEN delivered + 1
                    ELSE delivered

\* Watchdog._collect_signals, lines 215-221: get_nowait until the queue is empty.
CollectorGet ==
    /\ collPc = "draining"
    /\ IF outbox = <<>>
       THEN /\ collPc' = "idle"
            /\ UNCHANGED <<agent, outbox, delivered>>
       ELSE /\ handle_outbound(Head(outbox))
            /\ outbox' = Tail(outbox)
            /\ UNCHANGED collPc
    /\ UNCHANGED <<live, worker, inbox, agent_state, running, stopPc, pollPc,
                   nspawned, respawns, gaveUp, everKilled, respawnsAfterGiveUp>>

\* Watchdog.send_task: put a task_assign with sender "watchdog" on the agent's inbox.
SendTask(t) ==
    /\ Cardinality({i \in DOMAIN inbox : inbox[i].type = "task_assign"}) < MaxInbox
    /\ inbox' = Append(inbox, TaskAssignSig(t, "watchdog"))
    /\ UNCHANGED <<agent, live, worker, outbox, delivered, agent_state, running, stopPc,
                   pollPc, collPc, nspawned, respawns, gaveUp, everKilled, respawnsAfterGiveUp>>

\* Watchdog.stop_all, lines 79-82: clear _running, _send_shutdown to the agent
\* (only while its process is alive), then sleep for the grace window.
StopAllBegin ==
    /\ running
    /\ stopPc = "none"
    /\ running' = FALSE
    /\ inbox' = IF ProcessAlive THEN Append(inbox, ShutdownSig) ELSE inbox
    /\ stopPc' = "grace"
    /\ UNCHANGED <<agent, live, worker, outbox, delivered, agent_state, pollPc, collPc,
                   nspawned, respawns, gaveUp, everKilled, respawnsAfterGiveUp>>

\* Watchdog.stop_all, lines 83-86: _kill the agent if its process is still alive,
\* then return.
StopAllKill ==
    /\ stopPc = "grace"
    /\ stopPc' = "returned"
    /\ IF ProcessAlive
       THEN /\ live' = live \ {agent.process}
            /\ worker' = [worker EXCEPT ![agent.process] = DeadWorker]
            /\ everKilled' = TRUE
            /\ agent' = kill_agent
            /\ agent_state' = kill_state
       ELSE UNCHANGED <<live, worker, everKilled, agent, agent_state>>
    /\ UNCHANGED <<outbox, inbox, delivered, running, pollPc, collPc,
                   nspawned, respawns, gaveUp, respawnsAfterGiveUp>>

\* PicoClaw._main_loop / _dispatch of a live worker: take the next signal off the
\* inbox while the stop flag is clear. A shutdown sets the stop flag; a
\* task_assign enters _handle_task_assign, which first writes the state row
\* 'working' (without a pid).
WorkerDispatch(pid) ==
    /\ pid \in live
    /\ worker[pid].pc = "main"
    /\ ~worker[pid].stop
    /\ inbox # <<>>
    /\ inbox' = Tail(inbox)
    /\ IF Head(inbox).type = "shutdown"
       THEN /\ worker' = [worker EXCEPT ![pid].stop = TRUE]
            /\ UNCHANGED agent_state
       ELSE /\ worker' = [worker EXCEPT ![pid].pc = "handling",
                                        ![pid].task = Head(inbox).task,
                                        ![pid].sender = Head(inbox).sender]
            /\ agent_state' = [status |-> "working", pid |-> NoProcess]
    /\ UNCHANGED <<agent, live, outbox, delivered, running, stopPc, pollPc, collPc,
                   nspawned, respawns, gaveUp, everKilled, respawnsAfterGiveUp>>

\* PicoClaw._handle_task_assign, lines 129-137: handle_task returns, or raises an
\* Exception that the except clause turns into an {error} output with
\* success = False.
WorkerHandleTask(pid, raised) ==
    /\ pid \in live
    /\ worker[pid].pc = "handling"
    /\ worker' = [worker EXCEPT ![pid].pc = "handled", ![pid].raised = raised]
    /\ UNCHANGED <<agent, live, outbox, inbox, delivered, agent_state, running, stopPc,
                   pollPc, collPc, nspawned, respawns, gaveUp, everKilled, respawnsAfterGiveUp>>

\* The reply of _handle_task_assign with every outcome reported as a success.
WorkerTaskEnd_AlwaysSuccess(pid) ==
    /\ pid \in live
    /\ worker[pid].pc = "handled"
    /\ Len(outbox) < MaxOutbox
    /\ agent_state' = [status |-> "idle", pid |-> NoProcess]
    /\ IF worker[pid].task \in TaskIdSet /\ Exists(worker[pid].task)
       THEN complete_task(worker[pid].task, TRUE)
       ELSE UNCHANGED tasks
    /\ outbox' = Append(outbox, TaskResultSig(pid, worker[pid].task, worker[pid].sender, TRUE))
    /\ worker' = [worker EXCEPT ![pid] = [NewWorker EXCEPT !.hb = worker[pid].hb,
                                                          !.stop = worker[pid].stop]]
    /\ UNCHANGED <<agent, live, inbox, delivered, running, stopPc, pollPc, collPc,
                   nspawned, respawns, gaveUp, everKilled, respawnsAfterGiveUp>>

\* PicoClaw._handle_task_assign, lines 138-144: the finally block writes the
\* state row 'idle' (without a pid) and complete_task; then the task_result goes
\* on the outbox, addressed to the sender of the task_assign; the main loop goes on.
WorkerTaskEnd(pid) ==
    /\ pid \in live
    /\ worker[pid].pc = "handled"
    /\ Len(outbox) < MaxOutbox
    /\ agent_state' = [status |-> "idle", pid |-> NoProcess]
    /\ IF worker[pid].task \in TaskIdSet /\ Exists(worker[pid].task)
       THEN complete_task(worker[pid].task, ~worker[pid].raised)
       ELSE UNCHANGED tasks
    /\ outbox' = Append(outbox, TaskResultSig(pid, worker[pid].task, worker[pid].sender,
                                              ~worker[pid].raised))
    /\ worker' = [worker EXCEPT ![pid] = [NewWorker EXCEPT !.hb = worker[pid].hb,
                                                          !.stop = worker[pid].stop]]
    /\ UNCHANGED <<agent, live, inbox, delivered, running, stopPc, pollPc, collPc,
                   nspawned, respawns, gaveUp, everKilled, respawnsAfterGiveUp>>

\* PicoClaw._heartbeat_loop of a live worker process: put a heartbeat on the
\* outbox while the stop flag is clear.
WorkerHeartbeat(pid) ==
    /\ pid \in live
    /\ worker[pid].hb
    /\ ~worker[pid].stop
    /\ Len(outbox) < MaxOutbox
    /\ outbox' = Append(outbox, HeartbeatSig(pid))
    /\ UNCHANGED <<agent, live, worker, inbox, delivered, agent_state, running, stopPc,
                   pollPc, collPc, nspawned, respawns, gaveUp, everKilled, respawnsAfterGiveUp>>

\* The heartbeat loop as `while True`: it never tests the stop flag.
WorkerHeartbeatExit_NoStopTest(pid) ==
    /\ pid \in live
    /\ FALSE
    /\ UNCHANGED dogVars

\* PicoClaw._heartbeat_loop: the loop test finds the stop flag set and the loop ends.
WorkerHeartbeatExit(pid) ==
    /\ pid \in live
    /\ worker[pid].hb
    /\ worker[pid].stop
    /\ worker' = [worker EXCEPT ![pid].hb = FALSE]
    /\ UNCHANGED <<agent, live, outbox, inbox, delivered, agent_state, running, stopPc,
                   pollPc, collPc, nspawned, respawns, gaveUp, everKilled, respawnsAfterGiveUp>>

\* PicoClaw._main_loop: the loop test finds the stop flag set and the loop ends.
WorkerMainExit(pid) ==
    /\ pid \in live
    /\ worker[pid].pc = "main"
    /\ worker[pid].stop
    /\ worker' = [worker EXCEPT ![pid].pc = "main_done"]
    /\ UNCHANGED <<agent, live, outbox, inbox, delivered, agent_state, running, stopPc,
                   pollPc, collPc, nspawned, respawns, gaveUp, everKilled, respawnsAfterGiveUp>>

\* PicoClaw.run, lines 83-86: asyncio.run(_event_loop()) ends with an exception;
\* the except clause writes the state row 'crashed'.
WorkerCrash(pid) ==
    /\ pid \in live
    /\ worker[pid].pc \in {"main", "main_done"}
    /\ worker' = [worker EXCEPT ![pid].pc = "crashing"]
    /\ agent_state' = [status |-> "crashed", pid |-> pid]
    /\ UNCHANGED <<agent, live, outbox, inbox, delivered, running, stopPc,
                   pollPc, collPc, nspawned, respawns, gaveUp, everKilled, respawnsAfterGiveUp>>

\* PicoClaw.run, lines 87-90: after both loops ended, or after the except clause,
\* the finally clause writes the state row 'idle' and the process ends.
WorkerExit(pid) ==
    /\ pid \in live
    /\ \/ worker[pid].pc = "main_done" /\ ~worker[pid].hb
       \/ worker[pid].pc = "crashing"
    /\ agent_state' = [status |-> "idle", pid |-> pid]
    /\ live' = live \ {pid}
    /\ worker' = [worker EXCEPT ![pid] = DeadWorker]
    /\ UNCHANGED <<agent, outbox, inbox, delivered, running, stopPc,
                   pollPc, collPc, nspawned, respawns, gaveUp, everKilled, respawnsAfterGiveUp>>

\* A worker process ends abruptly (killed from outside, out of memory): no
\* handler of the worker runs.
WorkerDie(pid) ==
    /\ pid \in live
    /\ live' = live \ {pid}
    /\ worker' = [worker EXCEPT ![pid] = DeadWorker]
    /\ UNCHANGED <<agent, outbox, inbox, delivered, agent_state, running, stopPc,
                   pollPc, collPc, nspawned, respawns, gaveUp, everKilled, respawnsAfterGiveUp>>

\* Watchdog.__init__ and register(role, factory): nothing started yet.
InitDog ==
    /\ agent = [process |-> NoProcess, restart_count |-> 0,
                cpu_high_since |-> FALSE, cpu_high_pid |-> NoProcess, enabled |-> TRUE]
    /\ live = {}
    /\ worker = [pid \in Pids |-> DeadWorker]
    /\ outbox = <<>>
    /\ inbox = <<>>
    /\ delivered = 0
    /\ agent_state = [status |-> "none", pid |-> NoProcess]
    /\ running = FALSE
    /\ stopPc = "none"
    /\ pollPc = "idle"
    /\ collPc = "idle"
    /\ nspawned = 0
    /\ respawns = 0
    /\ gaveUp = FALSE
    /\ everKilled = FALSE
    /\ respawnsAfterGiveUp = 0

\* What a worker step leaves alone outside the supervisor's state: everything but
\* the tasks table.
workerFrame == <<routerVars, pathVars, task_deps, clock, conn, returned_to, last, toolVars, ceoVars, memVars, ctxVars, noteVars, cfoVars>>

\* The supervisor's threads and callers, with the worker seen from outside: it
\* heartbeats and it ends.
NextDog ==
    \/ StartAll /\ UNCHANGED notDog
    \/ PollLoop /\ UNCHANGED notDog
    \/ \E e \in ElapsedChoices, m \in RssChoices, c \in CpuChoices, h \in HighForChoices,
          x \in BOOLEAN : CheckAgent(e, m, c, h, x) /\ UNCHANGED notDog
    \/ HandleDeadRespawn /\ UNCHANGED notDog
    \/ CollectorCheck /\ UNCHANGED notDog
    \/ CollectorGet /\ UNCHANGED notDog
    \/ StopAllBegin /\ UNCHANGED notDog
    \/ StopAllKill /\ UNCHANGED notDog
    \/ \E pid \in Pids : WorkerHeartbeat(pid) /\ UNCHANGED notDog
    \/ \E pid \in Pids : WorkerDie(pid) /\ UNCHANGED notDog

\* The supervisor's threads with a caller of start_agent beside them.
NextSupervisor ==
    \/ NextDog
    \/ StartAgent /\ UNCHANGED notDog

\* A worker handling tasks of the store under the supervisor's polling thread:
\* the worker may be killed at a poll, or end abruptly, at any point.
NextFate ==
    \/ StartAll /\ UNCHANGED notDog
    \/ \E t \in TaskIdSet : SendTask(t) /\ UNCHANGED notDog
    \/ PollLoop /\ UNCHANGED notDog
    \/ \E e \in ElapsedChoices, m \in RssChoices, c \in CpuChoices, h \in HighForChoices,
          x \in BOOLEAN : CheckAgent(e, m, c, h, x) /\ UNCHANGED notDog
    \/ HandleDeadRespawn /\ UNCHANGED notDog
    \/ CollectorCheck /\ UNCHANGED notDog
    \/ CollectorGet /\ UNCHANGED notDog
    \/ \E pid \in Pids : WorkerDispatch(pid) /\ UNCHANGED notDog
    \/ \E pid \in Pids, raised \in BOOLEAN :
          WorkerHandleTask(pid, raised) /\ UNCHANGED notDog
    \/ \E pid \in Pids : WorkerTaskEnd(pid) /\ UNCHANGED workerFrame
    \/ \E pid \in Pids : WorkerDie(pid) /\ UNCHANGED notDog

\* The steps of a live worker that is handling a task.
WorkerHandles ==
    \E pid \in Pids, raised \in BOOLEAN : WorkerHandleTask(pid, raised) /\ UNCHANGED notDog

WorkerReplies ==
    \E pid \in Pids : WorkerTaskEnd(pid) /\ UNCHANGED workerFrame

\* The steps of the collector thread.
CollectorSteps ==
    (CollectorCheck \/ CollectorGet) /\ UNCHANGED notDog

\* One worker process from the inside, with the callers and the collector
\* around it.
NextWorker ==
    \/ StartAll /\ UNCHANGED notDog
    \/ \E t \in TaskIdSet : SendTask(t) /\ UNCHANGED notDog
    \/ StopAllBegin /\ UNCHANGED notDog
    \/ CollectorCheck /\ UNCHANGED notDog
    \/ CollectorGet /\ UNCHANGED notDog
    \/ \E pid \in Pids : WorkerDispatch(pid) /\ UNCHANGED notDog
    \/ \E pid \in Pids, raised \in BOOLEAN :
          WorkerHandleTask(pid, raised) /\ UNCHANGED notDog
    \/ \E pid \in Pids : WorkerTaskEnd(pid) /\ UNCHANGED workerFrame
    \/ \E pid \in Pids : WorkerHeartbeat(pid) /\ UNCHANGED notDog
    \/ \E pid \in Pids : WorkerHeartbeatExit(pid) /\ UNCHANGED notDog
    \/ \E pid \in Pids : WorkerMainExit(pid) /\ UNCHANGED notDog
    \/ \E pid \in Pids : WorkerCrash(pid) /\ UNCHANGED notDog
    \/ \E pid \in Pids : WorkerExit(pid) /\ UNCHANGED notDog

\* The steps by which a worker whose stop flag is set winds down.
WorkerWindDown ==
    \E pid \in Pids :
        /\ WorkerHeartbeatExit(pid) \/ WorkerMainExit(pid) \/ WorkerExit(pid)
        /\ UNCHANGED notDog

\* ======================================================================
\* Tool sandbox: safe_path
\* ======================================================================

\* Most components of a caller-supplied path in the model.
MaxPathLen == 3

\* File names, as strings of characters: the workspace directory's own name, a
\* name that extends it, and another name.
WsName == <<"w", "s">>

Names == {WsName, <<"w", "s", "2">>, <<"a">>}

Dot == <<".">>

DotDot == <<".", ".">>

Components == Names \cup {Dot, DotDot}

\* config.WORKSPACE = (ROOT / "workspace").resolve(): an absolute, normalized
\* path, as its sequence of components.
WORKSPACE == <<<<"r">>, WsName>>

\* Caller-supplied path strings: absolute or relative, up to MaxPathLen components.
UserPaths ==
    [abs : BOOLEAN, parts : UNION {[1..n -> Components] : n \in 0..MaxPathLen}]

\* pathlib `base / user_path`: an absolute right operand replaces the base.
Join(base, u) == IF u.abs THEN u.parts ELSE base \o u.parts

\* Path.resolve() on a file system without symbolic links: "." is dropped, ".."
\* removes the component before it (and stays at the root).
RECURSIVE Normalize(_, _)
Normalize(done, rest) ==
    IF rest = <<>>
    THEN done
    ELSE IF Head(rest) = Dot
    THEN Normalize(done, Tail(rest))
    ELSE IF Head(rest) = DotDot
    THEN Normalize(IF done = <<>> THEN <<>> ELSE SubSeq(done, 1, Len(done) - 1), Tail(rest))
    ELSE Normalize(Append(done, Head(rest)), Tail(rest))

Resolve(parts) == Normalize(<<>>, parts)

\* str(path) of an absolute path: "/" before each component, "/" alone for the root.
RECURSIVE Str(_)
Str(parts) ==
    IF parts = <<>>
    THEN <<"/">>
    ELSE IF Len(parts) = 1
    THEN <<"/">> \o parts[1]
    ELSE Str(SubSeq(parts, 1, Len(parts) - 1)) \o <<"/">> \o parts[Len(parts)]

\* str.startswith.
StartsWith(str, prefix) ==
    Len(prefix) <= Len(str) /\ SubSeq(str, 1, Len(prefix)) = prefix

\* sandbox.safe_path: resolve under the workspace, raise SecurityError unless the
\* resolved string starts with the workspace string, else return the resolved path.
safe_path(user_path) ==
    LET resolved == Resolve(Join(WORKSPACE, user_path))
    IN  IF ~StartsWith(Str(resolved), Str(WORKSPACE))
        THEN [raised |-> TRUE, path |-> <<>>]
        ELSE [raised |-> FALSE, path |-> resolved]

NoPathCall == [pc |-> "idle", user_path |-> [abs |-> FALSE, parts |-> <<>>],
               result |-> [raised |-> FALSE, path |-> <<>>]]

\* A tool calls safe_path with a caller-supplied path.
SafePath(user_path) ==
    /\ path_call.pc = "idle"
    /\ path_call' = [pc |-> "done", user_path |-> user_path, result |-> safe_path(user_path)]

\* The tool has the path or the SecurityError.
SafePathDone ==
    /\ path_call.pc = "done"
    /\ path_call' = NoPathCall

InitPath == path_call = NoPathCall

NextPath ==
    \/ \E u \in UserPaths : SafePath(u) /\ UNCHANGED notPath
    \/ SafePathDone /\ UNCHANGED notPath

\* ======================================================================
\* Tool registry: ToolRegistry.execute and the file tools
\* ======================================================================

\* Most rows of the audit_log table in the model.
MaxAuditRows == 3

\* Tool names callers pass: two of the built-in tools and a name no tool has.
Builtins == {"file_read", "file_write"}

ToolNames == Builtins \cup {"nonexistent"}

\* The path argument of a file tool call: a file in the workspace, a path that
\* climbs out of it, and a path into a sibling directory.
ToolPaths ==
    {[abs |-> FALSE, parts |-> <<<<"a">>>>],
     [abs |-> FALSE, parts |-> <<DotDot, DotDot, <<"a">>>>],
     [abs |-> FALSE, parts |-> <<DotDot, <<"w", "s", "2">>>>]}

\* What the file system does to a file tool whose path passed safe_path: the
\* operation works, raises (OSError), or the file to read is missing.
FsChoices == {"fine", "raises", "missing"}

IdleToolCall ==
    [pc |-> "idle", name |-> "nonexistent", path |-> [abs |-> FALSE, parts |-> <<>>],
     allowed |-> {}, audit |-> FALSE, invoked |-> 0, raised |-> FALSE,
     rows |-> <<>>, result |-> "none", wrote |-> <<>>]

\* store.audit: one more row of the audit_log table.
AuditRow(name, result) == [tool_name |-> name, result |-> result]

\* `name not in allowed`, negated, with every name permitted.
Permitted_Always(name, allowed) == TRUE

\* ToolRegistry.execute, line 59: `name not in allowed`, negated.
Permitted(name, allowed) == name \in allowed

\* ToolRegistry.register of a built-in tool (_load_builtins).
Register(name) ==
    /\ tool_call.pc = "idle"
    /\ tools' = tools \cup {name}
    /\ UNCHANGED <<audit_log, tool_call>>

\* ToolRegistry.execute up to the call of the tool (lines 59-69).
ExecuteBegin(name, path, allowed, audit) ==
    /\ tool_call.pc = "idle"
    /\ Len(audit_log) + 2 <= MaxAuditRows
    /\ LET call == [IdleToolCall EXCEPT !.name = name, !.path = path,
                                        !.allowed = allowed, !.audit = audit]
       IN  IF ~Permitted(name, allowed)
           THEN /\ audit_log' = IF audit THEN Append(audit_log, AuditRow(name, "denied"))
                                         ELSE audit_log
                /\ tool_call' = [call EXCEPT !.pc = "returned", !.result = "error",
                                             !.rows = IF audit THEN <<"denied">> ELSE <<>>]
           ELSE IF name \notin tools
           THEN /\ tool_call' = [call EXCEPT !.pc = "returned", !.result = "error"]
                /\ UNCHANGED audit_log
           ELSE /\ audit_log' = IF audit THEN Append(audit_log, AuditRow(name, "allowed"))
                                         ELSE audit_log
                /\ tool_call' = [call EXCEPT !.pc = "executing",
                                             !.rows = IF audit THEN <<"allowed">> ELSE <<>>]
    /\ UNCHANGED tools

\* FileReadTool.execute / FileWriteTool.execute: what the tool returns
\* ("ok" or "error") or "exception", and the path it wrote.
file_tool(name, path, fs) ==
    LET sp == safe_path(path)
    IN  IF sp.raised
        THEN [out |-> "error", wrote |-> <<>>]
        ELSE IF fs = "raises"
        THEN [out |-> "exception", wrote |-> <<>>]
        ELSE IF name = "file_read"
        THEN [out |-> IF fs = "missing" THEN "error" ELSE "ok", wrote |-> <<>>]
        ELSE [out |-> "ok", wrote |-> sp.path]

\* ToolRegistry.execute, lines 71-76: the tool runs; an exception is audited
\* and becomes an {error} result.
ToolExecute(fs) ==
    /\ tool_call.pc = "executing"
    /\ fs = "missing" => tool_call.name = "file_read"
    /\ LET r == file_tool(tool_call.name, tool_call.path, fs)
           failed == r.out = "exception"
       IN  /\ audit_log' = IF failed /\ tool_call.audit
                           THEN Append(audit_log, AuditRow(tool_call.name, "error"))
                           ELSE audit_log
           /\ tool_call' = [tool_call EXCEPT
                              !.pc = "returned",
                              !.invoked = @ + 1,
                              !.raised = failed,
                              !.rows = IF failed /\ tool_call.audit
                                       THEN Append(@, "error") ELSE @,
                              !.result = IF failed THEN "error" ELSE r.out,
                              !.wrote = r.wrote]
    /\ UNCHANGED tools

\* The caller has the result map; the registry is free.
ExecuteDone ==
    /\ tool_call.pc = "returned"
    /\ tool_call' = IdleToolCall
    /\ UNCHANGED <<tools, audit_log>>

InitTools ==
    /\ tools = {}
    /\ audit_log = <<>>
    /\ tool_call = IdleToolCall

NextTools ==
    \/ \E n \in Builtins : Register(n) /\ UNCHANGED notTools
    \/ \E n \in ToolNames, path \in ToolPaths, al \in SUBSET ToolNames, au \in BOOLEAN :
          ExecuteBegin(n, path, al, au) /\ UNCHANGED notTools
    \/ \E fs \in FsChoices : ToolExecute(fs) /\ UNCHANGED notTools
    \/ ExecuteDone /\ UNCHANGED notTools

\* ======================================================================
\* CEO coordinator: react loop, _dispatch_with_retry, _inline_dispatch
\* ======================================================================

\* MAX_STRIKES of _dispatch_with_retry.
MAX_STRIKES == 2

\* Largest strike count of a key at which the model still starts a delegation.
MaxStrikeCount == 3

\* Coordinator instances in one process; they share the class attribute.
Coordinators == {"ceo1", "ceo2"}

\* Tools the CEO's model asks for: ROLE_TOOLS["ceo"] (those modelled).
CeoTools == {"file_read", "file_write", "file_list", "shell_exec", "web_fetch", "delegate_task"}

\* The tool names the react loop sends to the reviewer.
ReviewedTools == {"shell_exec", "run_python", "file_write"}

\* agent_map of _inline_dispatch.
ExpertRoles == {"cto", "coder", "cko", "researcher", "communicator"}

\* Values of the agent argument of delegate_task: an expert and an unknown name.
DelegateRoles == {"coder", "intern"}

Payloads == {"p1", "p2"}

\* task_key: agent and hash of the payload.
TaskKeys == DelegateRoles \X Payloads

NoResult == [error |-> FALSE, kind |-> "none", escalate |-> FALSE, strikes |-> 0]

IdleDispatch == [pc |-> "idle", hint |-> FALSE, cfo |-> "none", cso |-> "none",
                 ran |-> FALSE, result |-> NoResult]

IdleReact == [pc |-> "idle", tool |-> "none", reviewed |-> FALSE, vetoed |-> FALSE,
              executed |-> FALSE]

IdleDeleg ==
    [pc |-> "idle", coord |-> "ceo1", key |-> <<"coder", "p1">>, attempts |-> 0,
     disp |-> IdleDispatch, dispatches |-> 0, workerRuns |-> 0, hints |-> 0,
     first |-> NoResult, result |-> NoResult]

\* The allocator's decision counts as a veto never.
CfoVetoed_Never(approved) == FALSE

\* _inline_dispatch, line 196: `cfo_decision and not cfo_decision.approved`.
CfoVetoed(approved) == ~approved

\* A react iteration whose response is a call of a tool other than delegate_task
\* (ceo.py:352-369, 379-387): the reviewer sees the arguments of the tools it is
\* sent, a veto is appended instead of the call, else the registry executes it.
ReactToolCall(name, approved) ==
    /\ react.pc = "idle"
    /\ deleg.pc = "idle"
    /\ name # "delegate_task"
    /\ LET reviewed == name \in ReviewedTools
           vetoed == reviewed /\ ~approved
       IN  react' = [pc |-> "appended", tool |-> name, reviewed |-> reviewed,
                     vetoed |-> vetoed, executed |-> ~vetoed]
    /\ UNCHANGED <<retry_counts, deleg>>

\* A react iteration whose response is a delegate_task call (ceo.py:372-378), and
\* _dispatch_with_retry up to its first _inline_dispatch (lines 233-236).
ReactDelegate(coord, key) ==
    /\ react.pc = "idle"
    /\ deleg.pc = "idle"
    /\ retry_counts[key] < MaxStrikeCount
    /\ react' = [IdleReact EXCEPT !.pc = "delegating", !.tool = "delegate_task"]
    /\ deleg' = [IdleDeleg EXCEPT !.pc = "dispatch1", !.coord = coord, !.key = key,
                                  !.attempts = retry_counts[key],
                                  !.dispatches = 1,
                                  !.disp = [IdleDispatch EXCEPT !.pc = "lookup"]]
    /\ UNCHANGED retry_counts

\* _inline_dispatch, lines 187-192: the expert class of the role.
InlineLookup ==
    /\ deleg.disp.pc = "lookup"
    /\ deleg' = IF deleg.key[1] \notin ExpertRoles
                THEN [deleg EXCEPT !.disp.pc = "done",
                                   !.disp.result = [NoResult EXCEPT !.error = TRUE,
                                                                    !.kind = "unknown_expert"]]
                ELSE [deleg EXCEPT !.disp.pc = "cfo"]
    /\ UNCHANGED <<retry_counts, react>>

\* _inline_dispatch, lines 195-200: the financial allocator.
CfoAllocate(approved) ==
    /\ deleg.disp.pc = "cfo"
    /\ deleg' = IF CfoVetoed(approved)
                THEN [deleg EXCEPT !.disp.pc = "done", !.disp.cfo = "veto",
                                   !.disp.result = [NoResult EXCEPT !.error = TRUE,
                                                                    !.kind = "cfo_veto"]]
                ELSE [deleg EXCEPT !.disp.pc = "cso",
                                   !.disp.cfo = IF approved THEN "approved" ELSE "veto"]
    /\ UNCHANGED <<retry_counts, react>>

\* _inline_dispatch, lines 203-209: the security reviewer.
CsoReview(approved) ==
    /\ deleg.disp.pc = "cso"
    /\ deleg' = IF ~approved
                THEN [deleg EXCEPT !.disp.pc = "done", !.disp.cso = "veto",
                                   !.disp.result = [NoResult EXCEPT !.error = TRUE,
                                                                    !.kind = "cso_veto"]]
                ELSE [deleg EXCEPT !.disp.pc = "worker", !.disp.cso = "approved"]
    /\ UNCHANGED <<retry_counts, react>>

\* _inline_dispatch, lines 212-221: the expert is instantiated and handles the task.
ExpertHandleTask(ok) ==
    /\ deleg.disp.pc = "worker"
    /\ deleg' = [deleg EXCEPT !.disp.pc = "done", !.disp.ran = TRUE,
                              !.workerRuns = @ + 1,
                              !.hints = IF deleg.disp.hint THEN @ + 1 ELSE @,
                              !.disp.result = IF ok
                                              THEN [NoResult EXCEPT !.kind = "result"]
                                              ELSE [NoResult EXCEPT !.error = TRUE,
                                                                    !.kind = "worker_error"]]
    /\ UNCHANGED <<retry_counts, react>>

\* The escalation result of _dispatch_with_retry (lines 256-266).
Escalation(first, counts, key) ==
    [error |-> TRUE, kind |-> first.kind, escalate |-> TRUE, strikes |-> counts[key]]

\* _dispatch_with_retry after its first dispatch (lines 238-249, 256-266).
AfterFirstDispatch ==
    /\ deleg.pc = "dispatch1"
    /\ deleg.disp.pc = "done"
    /\ LET result == deleg.disp.result
           attempts == deleg.attempts + 1
           counted == [retry_counts EXCEPT ![deleg.key] = attempts]
       IN  IF ~result.error
           THEN /\ retry_counts' = [retry_counts EXCEPT ![deleg.key] = 0]
                /\ deleg' = [deleg EXCEPT !.pc = "returned", !.first = result,
                                          !.result = result]
           ELSE /\ retry_counts' = counted
                /\ IF attempts < MAX_STRIKES
                   THEN deleg' = [deleg EXCEPT
                                    !.pc = "dispatch2", !.attempts = attempts,
                                    !.first = result,
                                    !.dispatches = @ + 1,
                                    !.disp = [IdleDispatch EXCEPT !.pc = "lookup",
                                                                  !.hint = TRUE]]
                   ELSE deleg' = [deleg EXCEPT
                                    !.pc = "returned", !.attempts = attempts,
                                    !.first = result,
                                    !.result = Escalation(result, counted, deleg.key)]
    /\ UNCHANGED react

\* _dispatch_with_retry after its second dispatch (lines 250-266).
AfterSecondDispatch ==
    /\ deleg.pc = "dispatch2"
    /\ deleg.disp.pc = "done"
    /\ LET result2 == deleg.disp.result
           struck == [retry_counts EXCEPT ![deleg.key] = MAX_STRIKES]
       IN  IF ~result2.error
           THEN /\ retry_counts' = [retry_counts EXCEPT ![deleg.key] = 0]
                /\ deleg' = [deleg EXCEPT !.pc = "returned", !.result = result2]
           ELSE /\ retry_counts' = struck
                /\ deleg' = [deleg EXCEPT
                               !.pc = "returned",
                               !.result = Escalation(deleg.first, struck, deleg.key)]
    /\ UNCHANGED react

\* The result of the delegation is appended to the messages (ceo.py:385-387).
DelegateAppend ==
    /\ deleg.pc = "returned"
    /\ react.pc = "delegating"
    /\ deleg' = IdleDeleg
    /\ react' = [react EXCEPT !.pc = "appended", !.executed = TRUE]
    /\ UNCHANGED retry_counts

\* The loop goes on to its next iteration.
ReactContinue ==
    /\ react.pc = "appended"
    /\ react' = IdleReact
    /\ UNCHANGED <<retry_counts, deleg>>

InitCeo ==
    /\ retry_counts = [k \in TaskKeys |-> 0]
    /\ react = IdleReact
    /\ deleg = IdleDeleg

NextCeo ==
    \/ \E n \in CeoTools, ap \in BOOLEAN : ReactToolCall(n, ap) /\ UNCHANGED notCeo
    \/ \E c \in Coordinators, k \in TaskKeys : ReactDelegate(c, k) /\ UNCHANGED notCeo
    \/ InlineLookup /\ UNCHANGED notCeo
    \/ \E ap \in BOOLEAN : CfoAllocate(ap) /\ UNCHANGED notCeo
    \/ \E ap \in BOOLEAN : CsoReview(ap) /\ UNCHANGED notCeo
    \/ \E ok \in BOOLEAN : ExpertHandleTask(ok) /\ UNCHANGED notCeo
    \/ AfterFirstDispatch /\ UNCHANGED notCeo
    \/ AfterSecondDispatch /\ UNCHANGED notCeo
    \/ DelegateAppend /\ UNCHANGED notCeo
    \/ ReactContinue /\ UNCHANGED notCeo

\* ======================================================================
\* Memory: the turn log and agentic compaction
\* ======================================================================

\* Most rows of the turns table in the model.
MaxTurns == 4

\* Most rows of the summaries table in the model.
MaxSummaries == 3

\* every_n of maybe_summarize (memory.summarize_every_n_turns), scaled down.
EveryN == 2

\* short_term_maxlen of the store (memory.short_term_maxlen), scaled down.
ShortTermMaxlen == 2

Sessions == {"s1", "s2"}

\* maybe_summarize calls that can be in progress at once (awaited coroutines).
Runs == {"r1", "r2"}

\* What the awaited router.complete gives the compaction: text, nothing, or an exception.
ExtractChoices == {"text", "empty", "raises"}

IdleCompact == [pc |-> "idle", session |-> "s1", turn_ids |-> <<>>]

\* A new row of the turns table: the next row id of the table, summarized 0.
NewTurnRow(session) == [session |-> session, summarized |-> FALSE]

\* The ids of the session's unsummarized turns.
Unsummarized(session) ==
    {i \in DOMAIN turns : turns[i].session = session /\ ~turns[i].summarized}

\* Store.count_unsummarized_turns.
count_unsummarized_turns(session) == Cardinality(Unsummarized(session))

\* A set of ids in ascending order.
RECURSIVE Ascending(_)
Ascending(S) ==
    IF S = {}
    THEN <<>>
    ELSE LET m == CHOOSE x \in S : \A y \in S : x <= y
         IN  <<m>> \o Ascending(S \ {m})

\* The query with ORDER BY id DESC: the newest unsummarized turns.
get_unsummarized_turns_Newest(session, limit) ==
    LET all == Ascending(Unsummarized(session))
    IN  SubSeq(all, IF Len(all) > limit THEN Len(all) - limit + 1 ELSE 1, Len(all))

\* Store.get_unsummarized_turns: ... summarized=0 ORDER BY id LIMIT ?.
get_unsummarized_turns(session, limit) ==
    LET all == Ascending(Unsummarized(session))
    IN  SubSeq(all, 1, IF Len(all) > limit THEN limit ELSE Len(all))

SeqMin(q) == CHOOSE x \in {q[i] : i \in DOMAIN q} : \A i \in DOMAIN q : x <= q[i]

SeqMax(q) == CHOOSE x \in {q[i] : i \in DOMAIN q} : \A i \in DOMAIN q : x >= q[i]

\* deque(maxlen).append: the oldest entry leaves a full ring.
RingAppend(ring, entry) ==
    IF Len(ring) < ShortTermMaxlen
    THEN Append(ring, entry)
    ELSE Append(Tail(ring), entry)

\* The ids of the session's turns, ascending.
SessionTurns(session) == Ascending({i \in DOMAIN turns : turns[i].session = session})

\* The last n elements of a sequence.
LastN(q, n) == SubSeq(q, IF Len(q) > n THEN Len(q) - n + 1 ELSE 1, Len(q))

\* Store.get_context: the ring of the session (an empty one on first access).
\* A ring entry is named by the id of the turn whose role and content it holds.
get_context(session) == short_term[session]

\* Store.push_turn: the entry is appended to the ring and the turn is one
\* more row of the turns table.
PushTurn(session) ==
    /\ Len(turns) < MaxTurns
    /\ short_term' = [short_term EXCEPT ![session] = RingAppend(@, Len(turns) + 1)]
    /\ turns' = Append(turns, NewTurnRow(session))
    /\ UNCHANGED <<summaries, compact>>

\* Store.rebuild_short_term: the ring is cleared and refilled with the last
\* short_term_maxlen turns of the session, oldest first.
RebuildShortTerm(session) ==
    /\ short_term' = [short_term EXCEPT
                        ![session] = LastN(SessionTurns(session), ShortTermMaxlen)]
    /\ UNCHANGED <<turns, summaries, compact>>

\* The process ends and a new one constructs its MemoryStore on the same
\* database (MemoryStore.__init__): no rings, no coroutine in progress.
Restart ==
    /\ short_term' = [session \in Sessions |-> <<>>]
    /\ compact' = [r \in Runs |-> IdleCompact]
    /\ UNCHANGED <<turns, summaries>>

\* maybe_summarize up to the awaited model call (summarizer.py:73-82, 102-108):
\* below the threshold it returns, else it takes the oldest every_n
\* unsummarized turns and awaits the model.
CompactBegin(r, session) ==
    /\ compact[r].pc = "idle"
    /\ count_unsummarized_turns(session) >= EveryN
    /\ LET picked == get_unsummarized_turns(session, EveryN)
       IN  /\ picked # <<>>
           /\ compact' = [compact EXCEPT ![r] = [pc |-> "awaiting", session |-> session,
                                                 turn_ids |-> picked]]
    /\ UNCHANGED <<turns, summaries, short_term>>

\* _run_agentic_compact after the model call (summarizer.py:114-121, 150-151):
\* an empty result or an exception ends the run; else save_summary, in a
\* transaction of its own, with the range min-max of the ids.
CompactFinish(r, extracted) ==
    /\ compact[r].pc = "awaiting"
    /\ LET ids == compact[r].turn_ids
           session == compact[r].session
       IN  IF extracted # "text"
           THEN /\ compact' = [compact EXCEPT ![r] = IdleCompact]
                /\ UNCHANGED summaries
           ELSE /\ Len(summaries) < MaxSummaries
                /\ summaries' = Append(summaries,
                                       [session |-> session, lo |-> SeqMin(ids),
                                        hi |-> SeqMax(ids),
                                        ids |-> {ids[i] : i \in DOMAIN ids}])
                /\ compact' = [compact EXCEPT ![r].pc = "saved"]
    /\ UNCHANGED <<turns, short_term>>

\* _run_agentic_compact, line 122: mark_summarized of the ids, in a second
\* transaction; raised is an exception of the store (caught at line 150).
CompactMark(r, raised) ==
    /\ compact[r].pc = "saved"
    /\ LET ids == compact[r].turn_ids
           session == compact[r].session
       IN  turns' = IF raised
                    THEN turns
                    ELSE [i \in DOMAIN turns |->
                            IF /\ turns[i].session = session
                               /\ \E j \in DOMAIN ids : ids[j] = i
                            THEN [turns[i] EXCEPT !.summarized = TRUE]
                            ELSE turns[i]]
    /\ compact' = [compact EXCEPT ![r] = IdleCompact]
    /\ UNCHANGED <<summaries, short_term>>

InitMem ==
    /\ turns = <<>>
    /\ summaries = <<>>
    /\ compact = [r \in Runs |-> IdleCompact]
    /\ short_term = [session \in Sessions |-> <<>>]

NextMem ==
    \/ \E session \in Sessions : PushTurn(session) /\ UNCHANGED notMem
    \/ \E r \in Runs, session \in Sessions : CompactBegin(r, session) /\ UNCHANGED notMem
    \/ \E r \in Runs, x \in ExtractChoices : CompactFinish(r, x) /\ UNCHANGED notMem
    \/ \E r \in Runs, raised \in BOOLEAN : CompactMark(r, raised) /\ UNCHANGED notMem
    \/ \E session \in Sessions : RebuildShortTerm(session) /\ UNCHANGED notMem
    \/ Restart /\ UNCHANGED notMem

\* ======================================================================
\* Context builder: build_context (texts are modelled by their lengths)
\* ======================================================================

\* Most retrieved chunks and most turns of a build_context call in the model.
MaxChunks == 2

MaxCtxTurns == 2

\* Lengths of the literal headers and of the chunk separator.
PersistentHeaderLen == 20

DailyHeaderLen == 12

RetrievedHeaderLen == 20

SeparatorLen == 5

SummaryHeaderLen == 17

TruncatedMarkLen == 15

\* Lengths and budgets the model draws its arguments from.
BudgetChoices == {2, 300}

SysLenChoices == {4, 8}

BlockLenChoices == {0, 400}

ChunkLenChoices == {40}

SummaryLenChoices == {100}

TurnLenChoices == {7, 1156}

SeqsUpTo(S, n) == UNION {[1..k -> S] : k \in 0..n}

CtxInputs ==
    [max_input_tokens : BudgetChoices, context_turns : {MaxCtxTurns},
     system_prompt : SysLenChoices, durable_memory : BlockLenChoices,
     daily_log : BlockLenChoices, retrieved_chunks : SeqsUpTo(ChunkLenChoices, MaxChunks),
     summaries : SeqsUpTo(SummaryLenChoices, 1),
     short_term : SeqsUpTo(TurnLenChoices, MaxCtxTurns)]

Min(a, b) == IF a < b THEN a ELSE b

\* estimate_tokens: max(1, len(text) // 4).
estimate_tokens(len) == IF len \div 4 < 1 THEN 1 ELSE len \div 4

\* _trim_to_tokens: the length of the text it returns.
trim_to_tokens(len, max_tokens) ==
    IF len <= max_tokens * 4
    THEN len
    ELSE (max_tokens * 4 - TruncatedMarkLen) + TruncatedMarkLen

\* build_context, lines 55-61: the system prompt is always emitted.
CtxSystem(in) ==
    [remaining |-> in.max_input_tokens - estimate_tokens(in.system_prompt),
     messages |-> <<in.system_prompt>>]

\* build_context, lines 65-72 and 76-83: a header block of at most a share
\* of what remains (L3: a quarter, L2: a fifth).
CtxBlock(st, len, headerLen, share) ==
    IF len > 0 /\ st.remaining > 200
    THEN LET blockBudget == Min(st.remaining \div share, estimate_tokens(len))
             text == trim_to_tokens(headerLen + len, blockBudget)
         IN  IF blockBudget > 50
             THEN [remaining |-> st.remaining - estimate_tokens(text),
                   messages |-> Append(st.messages, text)]
             ELSE st
    ELSE st

\* build_context, lines 91-96: the chunks taken, as [n, used], until one
\* does not fit the retrieval budget.
RECURSIVE TakeChunks(_, _, _, _)
TakeChunks(chunks, i, used, retrieval_budget) ==
    IF i > Len(chunks) \/ used + estimate_tokens(chunks[i]) > retrieval_budget
    THEN [n |-> i - 1, used |-> used]
    ELSE TakeChunks(chunks, i + 1, used + estimate_tokens(chunks[i]), retrieval_budget)

RECURSIVE SumLens(_, _)
SumLens(q, n) == IF n = 0 THEN 0 ELSE q[n] + SumLens(q, n - 1)

\* build_context, lines 87-100: the retrieved-context block.
CtxRetrieved(st, chunks) ==
    IF chunks # <<>> /\ st.remaining > 200
    THEN LET taken == TakeChunks(chunks, 1, 0, st.remaining \div 6)
             text == RetrievedHeaderLen + SumLens(chunks, taken.n)
                         + SeparatorLen * (taken.n - 1)
         IN  IF taken.n > 0
             THEN [remaining |-> st.remaining - taken.used,
                   messages |-> Append(st.messages, text)]
             ELSE st
    ELSE st

\* build_context, lines 103-108: the latest summary.
CtxSummary(st, sums) ==
    IF sums # <<>> /\ st.remaining > 150
    THEN LET text == SummaryHeaderLen + sums[Len(sums)]
             s_tokens == estimate_tokens(text)
         IN  IF s_tokens <= st.remaining - 150
             THEN [remaining |-> st.remaining - s_tokens,
                   messages |-> Append(st.messages, text)]
             ELSE st
    ELSE st

\* build_context, lines 111-118: the newest turns that fit, newest first,
\* until one does not fit; as [remaining, turns] with the turns in order.
RECURSIVE TakeTurns(_, _, _, _)
TakeTurns(capped, i, remaining, taken) ==
    IF i = 0 \/ estimate_tokens(capped[i]) > remaining
    THEN [remaining |-> remaining, turns |-> taken]
    ELSE TakeTurns(capped, i - 1, remaining - estimate_tokens(capped[i]),
                   <<capped[i]>> \o taken)

\* build_context: the lengths of the messages it returns and used_total.
build_context(in) ==
    LET s1 == CtxSystem(in)
        s2 == CtxBlock(s1, in.durable_memory, PersistentHeaderLen, 4)
        s3 == CtxBlock(s2, in.daily_log, DailyHeaderLen, 5)
        s4 == CtxRetrieved(s3, in.retrieved_chunks)
        s5 == CtxSummary(s4, in.summaries)
        capped == SubSeq(in.short_term,
                         IF Len(in.short_term) > in.context_turns
                         THEN Len(in.short_term) - in.context_turns + 1 ELSE 1,
                         Len(in.short_term))
        s6 == TakeTurns(capped, Len(capped), s5.remaining, <<>>)
    IN  [messages |-> s5.messages \o s6.turns,
         used_total |-> in.max_input_tokens - s6.remaining]

IdleCtxCall == [pc |-> "idle", messages |-> <<>>, used_total |-> 0,
                max_input_tokens |-> 0, system_prompt |-> 0]

\* An agent builds the context of a completion call.
BuildContext(in) ==
    /\ ctx_call.pc = "idle"
    /\ LET out == build_context(in)
       IN  ctx_call' = [pc |-> "done", messages |-> out.messages,
                        used_total |-> out.used_total,
                        max_input_tokens |-> in.max_input_tokens,
                        system_prompt |-> in.system_prompt]

\* The agent has its message list.
BuildContextDone ==
    /\ ctx_call.pc = "done"
    /\ ctx_call' = IdleCtxCall

InitCtx == ctx_call = IdleCtxCall

NextCtx ==
    \/ \E in \in CtxInputs : BuildContext(in) /\ UNCHANGED notCtx
    \/ BuildContextDone /\ UNCHANGED notCtx

\* ======================================================================
\* Task context: the per-session note file (lines are modelled by their
\* length, newline included, and by whether they start with "- [")
\* ======================================================================

\* Most body lines of the note file in the model.
MaxFileLines == 4

\* Most lines of one note.
MaxNoteLines == 2

\* _MAX_CHARS.
MAX_CHARS == 2600

\* Length of the three header lines _ensure_header writes for an
\* eight-character short id.
HeaderLen == 49

\* Length of "- [HH:MM]: ".
BulletPrefixLen == 11

\* Lengths of the lines of a note, and of the agent name ("" or "ceo").
NoteLineChoices == {600, 1300}

AgentLenChoices == {0, 3}

\* The notes: one to MaxNoteLines lines (a stripped note has no empty edge).
Notes == UNION {[1..k -> NoteLineChoices] : k \in 1..MaxNoteLines}

FileLine(len, bullet) == [len |-> len, bullet |-> bullet]

RECURSIVE BodyLen(_, _)
BodyLen(lines, n) == IF n = 0 THEN 0 ELSE lines[n].len + BodyLen(lines, n - 1)

\* len(text) of the note file.
FileLen(lines) == HeaderLen + BodyLen(lines, Len(lines))

\* append, lines 57-59: the lines of the entry. Only its first line starts
\* with "- ["; the other lines of the note follow as they are.
Entry(note, agentLen) ==
    [i \in 1..Len(note) |->
        IF i = 1
        THEN FileLine(BulletPrefixLen + (IF agentLen > 0 THEN 5 + agentLen ELSE 0)
                          + note[1] + 1, TRUE)
        ELSE FileLine(note[i] + 1, FALSE)]

\* _trim, lines 138-142: blank the oldest bullet lines while the text is too
\* long and a bullet is left. A blanked line is dropped from the file.
RECURSIVE EvictBullets(_, _)
EvictBullets(lines, i) ==
    IF FileLen(lines) <= MAX_CHARS \/ i > Len(lines)
    THEN lines
    ELSE IF lines[i].bullet
         THEN EvictBullets(SubSeq(lines, 1, i - 1) \o SubSeq(lines, i + 1, Len(lines)), i)
         ELSE EvictBullets(lines, i + 1)

\* _trim.
trim(lines) == IF FileLen(lines) <= MAX_CHARS THEN lines ELSE EvictBullets(lines, 1)

\* TaskContext.append: write the entry at the end of the file, then _trim.
TaskContextAppend(note, agentLen) ==
    /\ Len(note_file) + Len(note) <= MaxFileLines
    /\ note_file' = trim(note_file \o Entry(note, agentLen))

\* TaskContext.clear: the header alone.
TaskContextClear ==
    /\ note_file # <<>>
    /\ note_file' = <<>>

InitNote == note_file = <<>>

NextNote ==
    \/ \E note \in Notes, agentLen \in AgentLenChoices :
          TaskContextAppend(note, agentLen) /\ UNCHANGED notNote
    \/ TaskContextClear /\ UNCHANGED notNote

\* ======================================================================
\* Financial allocator: CFO.allocate (money in units of 1e-7 USD)
\* ======================================================================

Tiers == {"complex", "simple", "fast"}

\* What the model draws the arguments and the readings of allocate from.
CfoRoles == {"researcher", "coder"}

HitChoices == {0, 1, 2}

TextLenChoices == {50, 100, 500}

MaxOutputTokenChoices == {100, 1024}

DailyLimitChoices == {4000, 40000}

DailyUsedChoices == {0, 1000, 3700, 50000}

CfoInputs ==
    [agent_role : CfoRoles, complex_hits : HitChoices, fast_hits : HitChoices,
     text_len : TextLenChoices, max_output_tokens : MaxOutputTokenChoices,
     daily_limit : DailyLimitChoices, daily_used : DailyUsedChoices]

\* _COST_PER_1K per token: 0.003, 0.0003 and 0.0001 USD per thousand tokens.
CostPerToken(task_type) ==
    IF task_type = "complex" THEN 30 ELSE IF task_type = "simple" THEN 3 ELSE 1

\* _classify.
classify(in) ==
    IF in.agent_role \in {"researcher", "cko"} THEN "simple"
    ELSE IF in.complex_hits >= 2 \/ in.text_len > 400 THEN "complex"
    ELSE IF in.fast_hits >= 1 /\ in.complex_hits = 0 THEN "fast"
    ELSE IF in.text_len < 80 THEN "fast"
    ELSE "simple"

\* _token_alloc: max(256, int(max_output_tokens * multiplier)), the
\* multiplier being 1.0, 0.75 or 0.5.
token_alloc(task_type, max_output_tokens) ==
    LET scaled == IF task_type = "complex" THEN max_output_tokens
                  ELSE IF task_type = "simple" THEN (max_output_tokens * 3) \div 4
                  ELSE max_output_tokens \div 2
    IN  IF scaled < 256 THEN 256 ELSE scaled

\* _project_cost.
project_cost(task_type, max_tokens) == CostPerToken(task_type) * max_tokens

\* A _downgrade that skips a tier.
downgrade_SkipsTier(task_type) == "fast"

\* _downgrade.
downgrade(task_type) ==
    IF task_type = "complex" THEN "simple" ELSE "fast"

CFODecision(task_type, max_tokens, approved, projected) ==
    [task_type |-> task_type, max_tokens |-> max_tokens, approved |-> approved,
     projected_cost_usd |-> projected]

\* CFO.allocate.
allocate(in) ==
    LET task_type == classify(in)
        max_tokens == token_alloc(task_type, in.max_output_tokens)
        projected == project_cost(task_type, max_tokens)
        remaining == in.daily_limit - in.daily_used
        downgraded == downgrade(task_type)
        projected_down == project_cost(downgraded, max_tokens)
    IN  IF projected > remaining
        THEN IF downgraded # task_type /\ projected_down <= remaining
             THEN CFODecision(downgraded, max_tokens, TRUE, projected_down)
             ELSE CFODecision(task_type, max_tokens, FALSE, projected)
        ELSE CFODecision(task_type, max_tokens, TRUE, projected)

IdleCfoCall == [pc |-> "idle"]

\* The coordinator asks for an allocation.
Allocate(in) ==
    /\ cfo_call.pc = "idle"
    /\ cfo_call' = [pc |-> "done", in |-> in, classified |-> classify(in),
                    decision |-> allocate(in)]

\* The coordinator has the decision.
AllocateDone ==
    /\ cfo_call.pc = "done"
    /\ cfo_call' = IdleCfoCall

InitCfo == cfo_call = IdleCfoCall

NextCfo ==
    \/ \E in \in CfoInputs : Allocate(in) /\ UNCHANGED notCfo
    \/ AllocateDone /\ UNCHANGED notCfo

\* ======================================================================
\* Specifications
\* ======================================================================

\* The state after construction of the router, the store and the supervisor.
Init == InitRouter /\ InitTasks /\ InitDog /\ InitPath /\ InitTools /\ InitCeo /\ InitMem /\ InitCtx /\ InitNote /\ InitCfo

\* The router alone: one request at a time, of a router built with or without a store.
SpecRouter ==
    /\ Init
    /\ [][NextRouter]_vars

\* The task queue alone: store calls of two connections interleave statement by statement.
SpecTasks ==
    /\ Init
    /\ [][NextTasks]_vars

\* The state of a store holding one task being worked on, with drawn counters.
InitRetry == InitRouter /\ InitRetryTasks /\ InitDog /\ InitPath /\ InitTools /\ InitCeo /\ InitMem /\ InitCtx /\ InitNote /\ InitCfo

\* Failure handling of a task: fail_with_retry, the worker's task handler and
\* re-claims, from every drawn row.
SpecRetry ==
    /\ InitRetry
    /\ [][NextRetry]_vars

\* The supervisor with one worker role: polling thread, collector thread, worker processes.
SpecWatchdog ==
    /\ Init
    /\ [][NextDog]_vars

\* The supervisor with one worker role and on-demand starts of that role.
SpecSupervisor ==
    /\ Init
    /\ [][NextSupervisor]_vars

InitFate == InitRouter /\ InitFateTasks /\ InitDog /\ InitPath /\ InitTools /\ InitCeo /\ InitMem /\ InitCtx /\ InitNote /\ InitCfo

\* A store with one running task, its worker and the supervisor: a live worker
\* goes on with the task it handles, the collector goes on draining.
SpecFate ==
    /\ InitFate
    /\ [][NextFate]_vars
    /\ WF_vars(WorkerHandles)
    /\ SF_vars(WorkerReplies)
    /\ WF_vars(CollectorSteps)

\* safe_path on every caller-supplied path within the bounds.
SpecPath ==
    /\ Init
    /\ [][NextPath]_vars

\* The tool registry: registrations and calls of ToolRegistry.execute, one at a time.
SpecTools ==
    /\ Init
    /\ [][NextTools]_vars

\* The CEO's react loop: tool calls and delegations, one at a time.
SpecCeo ==
    /\ Init
    /\ [][NextCeo]_vars

\* The turn log: pushes to two sessions and up to two compaction runs in progress.
SpecMem ==
    /\ Init
    /\ [][NextMem]_vars

\* build_context on every argument list within the choices.
SpecCtx ==
    /\ Init
    /\ [][NextCtx]_vars

\* One session's note file under appends and clears.
SpecNote ==
    /\ Init
    /\ [][NextNote]_vars

\* CFO.allocate on every argument list within the choices.
SpecCfo ==
    /\ Init
    /\ [][NextCfo]_vars

\* One plan written to an empty task table, then claimed and completed.
SpecPlan ==
    /\ Init
    /\ [][NextPlan]_vars

\* One worker process. The event loop of the worker runs every task that is
\* ready, so the wind-down steps are taken once they stay enabled.
SpecWorker ==
    /\ Init
    /\ [][NextWorker]_vars
    /\ WF_vars(WorkerWindDown)

\* ======================================================================
\* Claims about the LLM router (checked under SpecRouter)
\* ======================================================================

\* C1: a request that begins while the daily cost of the cost log is at or above
\* the daily budget is refused: it invokes no provider and returns no response.
C1_RefusedAtBudget ==
    (req.pc # "idle" /\ req.beginDaily >= DailyBudget)
        => (req.invoked = 0 /\ req.pc # "returned")

\* C2: once the cost row of a successful call has brought the daily cost to or
\* above the budget, the request invokes no further provider, writes no further
\* cost row, and does not return a response.
C2_NothingAfterTrip ==
    req.tripped
        => (req.invokedAfterTrip = 0 /\ req.rowsAfterTrip = 0 /\ req.pc # "returned")

\* C3: a request that returns a response has written exactly one cost row, the
\* newest row of the cost log, for the provider that produced the response;
\* whichever way the agent constructed the router.
C3_OneCostRowPerResponse ==
    req.pc = "returned"
        => /\ req.rows = 1
           /\ cost_log # <<>>
           /\ cost_log[Len(cost_log)].provider = req.resp

\* ======================================================================
\* Claims about the task queue (checked under SpecTasks and SpecRetry)
\* ======================================================================

\* C4: claim_ready_task is atomic: under any interleaving of concurrent
\* claim_ready_task calls, a task is returned to at most one caller per time it
\* is pending.
C4_ReturnedToAtMostOneCaller ==
    \A t \in TaskIdSet : Cardinality(returned_to[t]) <= 1

\* C5: no task moves to status running while one of its declared dependencies
\* has a status other than done.
C5_NoRunningBeforeDependencies ==
    [][\A t \in TaskIdSet :
          (tasks[t].status # "running" /\ tasks'[t].status = "running")
              => \A d \in TaskIdSet : <<t, d>> \in task_deps => tasks[d].status = "done"]_vars

\* A task claim_ready_task(role) may return, stated on the tables directly: it is
\* pending, assigned to the role, and every task it depends on is done.
C6_Claimable(t, role) ==
    /\ tasks[t].exists
    /\ tasks[t].status = "pending"
    /\ tasks[t].assigned_to = role
    /\ \A e \in task_deps : e[1] = t => tasks[e[2]].status = "done"

\* C6: in the tables its query reads, the row claim_ready_task(role) selects is
\* pending, assigned to that role and has every dependency done (a pending,
\* running or failed dependency blocks it), and no such task is older; it selects
\* none exactly when no such task exists; and the call returns the row selected.
C6_ReturnsOldestClaimable ==
    [][\A c \in Conns :
          /\ (conn[c].pc = "idle" /\ conn'[c].pc = "ready_selected")
                => LET role == conn'[c].role
                       row == conn'[c].row
                   IN  /\ role \in Roles
                       /\ (row = "none") <=> ~\E t \in TaskIdSet : C6_Claimable(t, role)
                       /\ row # "none"
                             => /\ C6_Claimable(row, role)
                                /\ \A u \in TaskIdSet :
                                      C6_Claimable(u, role)
                                          => tasks[row].created_at <= tasks[u].created_at
          /\ (conn[c].pc = "ready_selected" /\ conn'[c].pc = "idle")
                => \A t \in TaskIdSet :
                      /\ (c \in returned_to'[t] /\ c \notin returned_to[t]) => t = conn[c].row
                      /\ t = conn[c].row => (c \in returned_to'[t] /\ tasks'[t].status = "running")
      ]_vars

\* C6 witness: a call has selected a task although an older pending task of the
\* same role exists, that one held back by a dependency that is not done; and
\* another call for that role has selected none while the pending task is held
\* back by a failed dependency.
C6_Witness ==
    \E c \in Conns, k \in Conns, u \in TaskIdSet, d \in TaskIdSet :
        /\ conn[c].pc = "ready_selected"
        /\ conn[c].row \in TaskIdSet
        /\ u # conn[c].row
        /\ tasks[u].status = "pending"
        /\ tasks[u].assigned_to = conn[c].role
        /\ tasks[u].created_at < tasks[conn[c].row].created_at
        /\ <<u, d>> \in task_deps
        /\ tasks[d].status = "failed"
        /\ conn[k].pc = "ready_selected"
        /\ conn[k].row = "none"
        /\ conn[k].role = tasks[u].assigned_to

\* C7: for every drawn retry_count and max_retries (max_retries = 0 included),
\* fail_with_retry resets the task to pending, increments retry_count and
\* returns true exactly when retry_count < max_retries in the row it read;
\* otherwise the task becomes failed and the call returns false.
C7_RetryIffCountBelowMax ==
    [][\A c \in Conns :
          (/\ conn[c].pc = "retry_selected"
           /\ conn'[c].pc = "idle"
           /\ conn[c].retry_count # Null
           /\ conn[c].max_retries # Null)
              => LET t == conn[c].row
                 IN  IF conn[c].retry_count < conn[c].max_retries
                     THEN /\ tasks'[t].status = "pending"
                          /\ tasks'[t].retry_count = conn[c].retry_count + 1
                          /\ last'.ret
                     ELSE /\ tasks'[t].status = "failed"
                          /\ ~last'.ret]_vars

\* C8: when a worker's handling of an assigned task fails and the task has
\* retries remaining (retry_count < max_retries), the row is reset to pending;
\* it becomes failed only when no retries remain.
C8_FailedHandlingRetries ==
    [][\A t \in TaskIdSet :
          (/\ HandleTaskAssign(t, TRUE)
           /\ tasks[t].max_retries # Null)
              => /\ tasks[t].retry_count < tasks[t].max_retries
                       => tasks'[t].status = "pending"
                 /\ tasks'[t].status = "failed"
                       => tasks[t].retry_count >= tasks[t].max_retries]_vars

\* ======================================================================
\* Claims about the supervisor (checked under SpecWatchdog)
\* ======================================================================

\* C9: a worker that dies again after every respawn (the supervisor kills none of
\* its processes) is respawned by the restart flow at most max_restarts times.
C9_RespawnsAtMostMaxRestarts ==
    ~everKilled => respawns <= MaxRestarts

\* C10: once the restart flow has found restart_count >= max_restarts and marked
\* the worker crashed, the background threads spawn no new process for it.
C10_CrashedIsTerminal ==
    gaveUp => respawnsAfterGiveUp = 0

\* C11: after stop_all has returned, no worker process is alive (none survives
\* and none is spawned afterwards).
C11_NothingAliveAfterStopAll ==
    stopPc = "returned" => live = {}

\* C12: the polling check kills a live process only on a breach by that process:
\* heartbeat age over the timeout, RSS over the cap, or CPU over the threshold
\* with a high-CPU timestamp taken from that process more than
\* cpu_kill_sustained_seconds ago; and the timestamp is null whenever the
\* current process has not been observed above the threshold.
C12_KillOnlyOnOwnBreach ==
    [][/\ \A e \in ElapsedChoices, m \in RssChoices, c \in CpuChoices,
             h \in HighForChoices, x \in BOOLEAN :
             (CheckAgent(e, m, c, h, x) /\ ProcessAlive /\ agent.process \notin live')
                 => \/ e > HeartbeatTimeout
                    \/ ~x /\ m > RamKillThresholdMb
                    \/ /\ ~x
                       /\ c > CpuKillThresholdPercent
                       /\ h > CpuKillSustainedSeconds
                       /\ agent.cpu_high_pid = agent.process
       /\ (agent.cpu_high_since /\ agent.process # NoProcess)
             => agent.cpu_high_pid = agent.process
      ]_vars

C14_CrashedRowAtExit ==
    [][\A pid \in Pids :
          (pid \in live /\ worker[pid].pc = "crashing" /\ pid \notin live')
              => agent_state'.status = "crashed"]_vars

\* C15: the state row either carries the pid of a live process or has status
\* crashed or idle; a row with status working or killed carries the pid of a
\* live process.
C15_RowPidLiveOrCrashedIdle ==
    agent_state.status # "none"
        => (agent_state.pid \in live \/ agent_state.status \in {"crashed", "idle"})

\* C16: every task_result the collector drains from the outbox is put exactly
\* once on the inbox of the agent named in its target.
C16_ResultRoutedToTarget ==
    [][(/\ collPc = "draining"
        /\ outbox # <<>>
        /\ Head(outbox).type = "task_result"
        /\ outbox' = Tail(outbox))
            => delivered' = delivered + 1]_vars

\* C17: dispatching a shutdown sets the worker's stop flag; a worker whose stop
\* flag is set takes no further signal off its inbox; and its loops end so that
\* the process ends.
C17_ShutdownStopsWorker ==
    /\ [][/\ (inbox # <<>> /\ Head(inbox).type = "shutdown" /\ inbox' = Tail(inbox))
                => \E pid \in live : worker'[pid].stop
          /\ (\E pid \in live : worker[pid].stop) => Len(inbox') >= Len(inbox)
         ]_vars
    /\ \A pid \in Pids : (pid \in live /\ worker[pid].stop) ~> (pid \notin live)

\* C17 witness: a worker has dispatched a shutdown, both its loops have ended, and
\* a task_assign is still waiting in its inbox.
C17_Witness ==
    \E pid \in live :
        /\ worker[pid].stop
        /\ worker[pid].pc = "main_done"
        /\ ~worker[pid].hb
        /\ inbox # <<>>
        /\ Head(inbox).type = "task_assign"

\* ======================================================================
\* More claims about the LLM router (checked under SpecRouter)
\* ======================================================================

\* C18: complete_full tries its candidates in order; the first candidate whose
\* call succeeds ends the request, which returns that provider's response; a
\* failed call moves on to the next candidate, and the request raises
\* ProviderExhausted exactly when the call of its last candidate failed too.
C18_FirstSuccessReturns ==
    [][/\ \A c \in CostChoices :
             Attempt(TRUE, c)
                 => (req'.pc = "returned" /\ req'.resp = req.ordered[req.idx])
       /\ \A c \in CostChoices :
             Attempt(FALSE, c)
                 => /\ req'.idx = req.idx + 1
                    /\ req'.pc = IF req.idx = Len(req.ordered) THEN "raised" ELSE "trying"
      ]_vars

\* C19: quota_remaining of a router starts at 1 and stays within [0,1]; a failed
\* call decrements the quota of the provider called by 0.3, floored at 0, and
\* no other quota; a provider whose call succeeded is not decremented; nothing
\* else changes a quota.
C19_QuotaDecrementedOnFailureOnly ==
    [][/\ \A p \in ProviderSet : quota_remaining'[p] \in 0..10
       /\ \A st \in BOOLEAN :
             NewRouter(st) => \A p \in ProviderSet : quota_remaining'[p] = 10
       /\ \A c \in CostChoices : Attempt(TRUE, c) => quota_remaining' = quota_remaining
       /\ \A c \in CostChoices :
             Attempt(FALSE, c)
                 => \A p \in ProviderSet :
                       quota_remaining'[p] =
                           IF p = req.ordered[req.idx]
                           THEN (IF quota_remaining[p] >= 3 THEN quota_remaining[p] - 3 ELSE 0)
                           ELSE quota_remaining[p]
       /\ (quota_remaining' # quota_remaining)
             => \/ \E st \in BOOLEAN : NewRouter(st)
                \/ \E ok \in BOOLEAN, c \in CostChoices : Attempt(ok, c)
      ]_vars

\* ======================================================================
\* Claims about the tool sandbox (checked under SpecPath)
\* ======================================================================

\* C20: for every caller-supplied path, safe_path either raises or returns a
\* normalized path that is the workspace root or has the workspace root as a
\* directory ancestor.
C20_SafePathInsideWorkspace ==
    (path_call.pc = "done" /\ ~path_call.result.raised)
        => LET path == path_call.result.path
           IN  /\ Len(path) >= Len(WORKSPACE)
               /\ SubSeq(path, 1, Len(WORKSPACE)) = WORKSPACE
               /\ \A i \in 1..Len(path) : path[i] \in Names \cup {<<"r">>}

\* ======================================================================
\* Claims about the tool registry (checked under SpecTools)
\* ======================================================================

\* C21: ToolRegistry.execute never invokes a tool whose name is not in the
\* allowed list: a call with such a name, registered or not, returns an error
\* result at once, and every invocation of a tool is of a name in the list.
C21_NeverInvokesDisallowed ==
    [][/\ (tool_call'.invoked > tool_call.invoked) => tool_call.name \in tool_call.allowed
       /\ (tool_call'.pc = "executing") => tool_call'.name \in tool_call'.allowed
       /\ \A n \in ToolNames, path \in ToolPaths, al \in SUBSET ToolNames, au \in BOOLEAN :
             (ExecuteBegin(n, path, al, au) /\ n \notin al)
                 => /\ tool_call'.pc = "returned"
                    /\ tool_call'.result = "error"
                    /\ tool_call'.invoked = 0
      ]_vars

\* C21 witness: a call naming a registered tool outside the allowed list has
\* returned an error without invoking it.
C21_Witness ==
    /\ tool_call.pc = "returned"
    /\ tool_call.name \in tools
    /\ tool_call.name \notin tool_call.allowed
    /\ tool_call.allowed # {}
    /\ tool_call.result = "error"
    /\ tool_call.invoked = 0

\* A normalized path is the workspace root or below it.
C22_Inside(path) ==
    /\ Len(path) >= Len(WORKSPACE)
    /\ SubSeq(path, 1, Len(WORKSPACE)) = WORKSPACE

\* C22: a file_write call whose path leaves the workspace, made through the
\* registry by a role allowed to use the tool, returns an error result, writes
\* nothing outside the workspace and leaves an audit row with result denied.
C22_EscapeDeniedAndAudited ==
    (/\ tool_call.pc = "returned"
     /\ tool_call.name = "file_write"
     /\ "file_write" \in tool_call.allowed
     /\ "file_write" \in tools
     /\ tool_call.audit
     /\ ~C22_Inside(Resolve(Join(WORKSPACE, tool_call.path))))
        => /\ tool_call.result = "error"
           /\ tool_call.wrote = <<>>
           /\ \E i \in DOMAIN tool_call.rows : tool_call.rows[i] = "denied"

\* C23: a call made with an audit function has, when it returns, written at
\* least one audit row matching its outcome: denied for a name outside the
\* allowed list, allowed when the tool was invoked, error when its execution
\* raised; and it returns a result map.
C23_AuditRowPerCall ==
    (tool_call.pc = "returned" /\ tool_call.audit)
        => /\ tool_call.rows # <<>>
           /\ tool_call.result \in {"ok", "error"}
           /\ tool_call.name \notin tool_call.allowed => tool_call.rows = <<"denied">>
           /\ tool_call.invoked > 0 => tool_call.rows[1] = "allowed"
           /\ tool_call.raised => tool_call.rows[Len(tool_call.rows)] = "error"

\* ======================================================================
\* Claims about the CEO coordinator (checked under SpecCeo)
\* ======================================================================

\* C24: in the react loop, every tool call other than delegate_task that is
\* executed had its arguments passed through the security reviewer first, and a
\* call the reviewer vetoed is not executed.
C24_EveryToolCallReviewed ==
    (react.pc = "appended" /\ react.tool # "delegate_task")
        => /\ react.executed => react.reviewed
           /\ react.vetoed => ~react.executed

C26_VetoNotRetried ==
    (deleg.pc = "returned" /\ deleg.first.kind \in {"cfo_veto", "cso_veto"})
        => /\ deleg.dispatches = 1
           /\ deleg.result = deleg.first

\* C27: a delegate_task call whose worker attempts all returned an error has
\* dispatched the worker exactly twice, the second time with the retry hint, and
\* returns escalate=true with strikes=2; a call that returns a success has
\* cleared the counter of its key. Whatever the earlier delegations were.
C27_TwoStrikes ==
    /\ (/\ deleg.pc = "returned"
        /\ deleg.result.error
        /\ deleg.first.kind = "worker_error"
        /\ deleg.workerRuns = deleg.dispatches)
           => /\ deleg.workerRuns = 2
              /\ deleg.hints = 1
              /\ deleg.result.escalate
              /\ deleg.result.strikes = 2
    /\ (deleg.pc = "returned" /\ ~deleg.result.error)
           => (deleg.result.kind = "result" /\ retry_counts[deleg.key] = 0)

\* ======================================================================
\* Claims about the turn log and compaction (checked under SpecMem)
\* ======================================================================

\* C28: the summarized flag of a turn only changes from false to true, and in
\* every state the summarized turns of a session are a prefix, in id order, of
\* the session's turns.
C28_SummarizedIsPrefix ==
    [][/\ \A i \in DOMAIN turns :
             /\ i \in DOMAIN turns'
             /\ turns'[i].session = turns[i].session
             /\ turns[i].summarized => turns'[i].summarized
       /\ \A i \in DOMAIN turns', j \in DOMAIN turns' :
             (/\ turns'[i].session = turns'[j].session
              /\ i < j
              /\ turns'[j].summarized)
                 => turns'[i].summarized
      ]_vars

\* C28 witness: after two overlapping compaction runs of one session, a second
\* range of its turns is summarized and a later turn is not.
C28_Witness ==
    /\ Len(summaries) >= 2
    /\ \E i \in DOMAIN turns, j \in DOMAIN turns :
          /\ i < j
          /\ turns[i].session = turns[j].session
          /\ turns[i].summarized
          /\ ~turns[j].summarized
    /\ \E r \in Runs : compact[r].pc = "awaiting"

\* C29: every new summary row of a session has a range that begins after the
\* end of every range already recorded for that session, also when two
\* compaction runs of the session overlap.
C29_SummaryRangesMoveForward ==
    [][Len(summaries') > Len(summaries)
          => LET new == summaries'[Len(summaries')]
             IN  \A k \in DOMAIN summaries :
                    summaries[k].session = new.session => new.lo > summaries[k].hi
      ]_vars

\* C30: the inclusive id range of a summary row contains exactly the turns that
\* fed the compaction, and no turn of another session.
C30_RangeIsExactlyTheTurnsFed ==
    \A k \in DOMAIN summaries :
        \A i \in summaries[k].lo..summaries[k].hi :
            /\ i \in summaries[k].ids
            /\ turns[i].session = summaries[k].session

\* C31: get_context of a session returns the last min(N, number of persisted
\* turns) turns of the session from the turns table, oldest first, N being
\* short_term_maxlen: after pushes in one process and after a process restart.
C31_ContextIsLastTurnsOfLog ==
    \A session \in Sessions :
        get_context(session) = LastN(SessionTurns(session), ShortTermMaxlen)

\* ======================================================================
\* Claims about the context builder (checked under SpecCtx)
\* ======================================================================

\* Tokens of a text as the specification estimates them: chars / 4, rounded up.
C32_CeilTokens(len) == (len + 3) \div 4

RECURSIVE C32_SumTokens(_, _)
C32_SumTokens(q, n) == IF n = 0 THEN 0 ELSE C32_CeilTokens(q[n]) + C32_SumTokens(q, n - 1)

\* C32: whenever the system prompt alone fits the budget, the estimated tokens
\* of all messages build_context returns sum to at most max_input_tokens.
C32_ContextWithinBudget ==
    (/\ ctx_call.pc = "done"
     /\ C32_CeilTokens(ctx_call.system_prompt) <= ctx_call.max_input_tokens)
        => C32_SumTokens(ctx_call.messages, Len(ctx_call.messages))
               <= ctx_call.max_input_tokens

\* ======================================================================
\* Claims about the task context note file (checked under SpecNote)
\* ======================================================================

\* C33: after every append (and every clear) the note file is at most
\* _MAX_CHARS characters long, whatever the notes were, multi-line notes
\* included.
C33_NoteFileWithinMaxChars == FileLen(note_file) <= MAX_CHARS

\* ======================================================================
\* Claims about the financial allocator (checked under SpecCfo)
\* ======================================================================

\* The budget left when the allocator read it.
C34_Remaining == cfo_call.in.daily_limit - cfo_call.in.daily_used

\* The projected cost, with the tokens allocated, of a tier.
C34_Cost(task_type) == project_cost(task_type, cfo_call.decision.max_tokens)

\* The tier one step down from the classified one, if there is one.
C34_OneDown ==
    IF cfo_call.classified = "complex" THEN {"simple"}
    ELSE IF cfo_call.classified = "simple" THEN {"fast"}
    ELSE {}

\* C34: the allocator approves exactly when the projected cost of the
\* classified tier, or failing that of the tier one step down, is at most
\* daily_limit - daily_used; an approved decision projects at most the
\* remaining budget and at least 256 tokens; a task classified fast stays fast.
C34_ApprovesExactlyWhenATierFits ==
    cfo_call.pc = "done" =>
        /\ cfo_call.decision.approved <=>
              \/ C34_Cost(cfo_call.classified) <= C34_Remaining
              \/ \E t \in C34_OneDown : C34_Cost(t) <= C34_Remaining
        /\ cfo_call.decision.approved =>
              /\ cfo_call.decision.projected_cost_usd <= C34_Remaining
              /\ cfo_call.decision.projected_cost_usd = C34_Cost(cfo_call.decision.task_type)
              /\ cfo_call.decision.max_tokens >= 256
              /\ cfo_call.decision.task_type \in {cfo_call.classified} \cup C34_OneDown
        /\ cfo_call.classified = "fast" => cfo_call.decision.task_type = "fast"

\* A complex task is approved one tier down because only that tier fits.
C34_Witness ==
    /\ cfo_call.pc = "done"
    /\ cfo_call.classified = "complex"
    /\ cfo_call.decision.approved
    /\ cfo_call.decision.task_type = "simple"
    /\ C34_Cost("complex") > C34_Remaining

\* ======================================================================
\* Claims about create_plan (checked under SpecPlan)
\* ======================================================================

\* C35: the tasks create_plan writes form a dependency chain: every step after
\* the first has a dependency edge to an earlier step of the plan, and no step
\* leaves pending before the step before it is done.
C35_PlanIsDependencyChain ==
    \A i \in 2..Len(TaskIds) :
        Exists(TaskIds[i]) =>
            /\ \E j \in 1..(i - 1) : <<TaskIds[i], TaskIds[j]>> \in task_deps
            /\ tasks[TaskIds[i]].status # "pending" => tasks[TaskIds[i - 1]].status = "done"

\* ======================================================================
\* Claims about the supervisor under on-demand starts (checked under
\* SpecSupervisor)
\* ======================================================================

\* C36: mutations of the managed-agent record exclude each other: while the
\* polling thread is inside its kill/restart flow (between dropping the old
\* process and _spawn of the new one), no other thread changes the record.
C36_RecordMutationsExclusive ==
    [][(pollPc = "backoff" /\ agent' # agent) => pollPc' = "idle"]_vars

\* C37: at most one worker process of the role is alive at any time.
C37_OneLiveProcessPerRole == Cardinality(live) <= 1

\* C38: a heartbeat of a process that is no longer the agent's process, taken
\* off the outbox while a replacement is the agent's process, leaves the
\* restart count alone.
C38_StaleHeartbeatNotCredited ==
    [][(/\ collPc = "draining"
        /\ outbox # <<>>
        /\ outbox' = Tail(outbox)
        /\ Head(outbox).type = "heartbeat"
        /\ agent.process # NoProcess
        /\ Head(outbox).pid # agent.process)
           => agent'.restart_count = agent.restart_count]_vars

\* ======================================================================
\* Claims about the fate of a task being handled (checked under SpecFate)
\* ======================================================================

\* C39: every task of the store a worker has started handling eventually is
\* done or failed in the store with its task_result on the outbox, also when
\* the worker is killed or dies while handle_task runs.
C39_StartedTaskEnds ==
    \A t \in TaskIdSet :
        (\E pid \in Pids : /\ pid \in live
                           /\ worker[pid].pc = "handling"
                           /\ worker[pid].task = t
                           /\ Exists(t))
            ~> (/\ tasks[t].status \in {"done", "failed"}
                /\ \E i \in DOMAIN outbox :
                      outbox[i].type = "task_result" /\ outbox[i].task = t)

\* C40: whenever no compaction run stands between its save_summary and its
\* mark_summarized, the turns of every summary row are marked summarized, every
\* summarized turn is in a summary row, and no turn is in two summary rows;
\* also after a failure or a process death between the two calls.
C40_SummaryAndMarksTogether ==
    (\A r \in Runs : compact[r].pc # "saved") =>
        /\ \A k \in DOMAIN summaries : \A i \in summaries[k].ids : turns[i].summarized
        /\ \A i \in DOMAIN turns :
              turns[i].summarized => \E k \in DOMAIN summaries : i \in summaries[k].ids
        /\ \A k \in DOMAIN summaries, l \in DOMAIN summaries :
              k # l => summaries[k].ids \cap summaries[l].ids = {}

====
